---- MODULE Spec2Model ----
(***************************************************************************)
(* A model of the short-link service: the durable link store (table        *)
(* `links` with its two unique indexes), the edge cache (SHORTENER_KV,     *)
(* keys url:{hash} and og:{hash}), the resolution handlers                 *)
(* (GET /:shortCode, GET /:shortCode/og), the mutation handlers            *)
(* (POST/PUT/DELETE /api/url, one task per batch item) and the expiration  *)
(* sweep (cleanupExpiredLinks).  Every `await` of a handler is a step      *)
(* boundary: the code between two awaits runs as one action.  The store    *)
(* fails only by its client not initialising; the cache may throw on any   *)
(* call.                                                                   *)
(***************************************************************************)
EXTENDS Integers, Sequences, FiniteSets, TLC

\* ------------------------------------------------------------------ bounds
\* Number of handler invocations (batch items, resolutions, sweeps) started:
\* with overlapping requests, and with requests served one at a time.
MaxOps == 3
MaxSeqOps == 4
\* The clock is  a + b * HourMs  with  a <= MaxMs  and  b <= MaxHours.
MaxMs == 2
MaxHours == 1
\* Batch requests served one after another, and the items of a batch.
MaxBatches == 2
\* sweeps of one behaviour, expired rows the store starts a sweep with, and
\* store / cache operations of one sweep that fail
MaxSweeps == 2
MaxExpired == 51
MaxFaults == 1
\* expired rows the store holds when a sweep and renewals overlap
MaxRenewable == 2
MaxItems == 3

\* ------------------------------------------------------- program constants
HourMs == 3600000
CacheTtlSeconds == 3600
\* a loop that allows one attempt more
MaxRetries_OneMore == 15 + 1

MaxRetries == 15
\* batches of half the size
BATCH_SIZE_Half == 50 \div 2

BATCH_SIZE == 50
\* generateRandomHash: (timestamp % 1000000) * 1000000 + random
Million == 1000000
Base == 62
BASE62_CHARS ==
    <<"0", "1", "2", "3", "4", "5", "6", "7", "8", "9",
      "A", "B", "C", "D", "E", "F", "G", "H", "I", "J", "K", "L", "M",
      "N", "O", "P", "Q", "R", "S", "T", "U", "V", "W", "X", "Y", "Z",
      "a", "b", "c", "d", "e", "f", "g", "h", "i", "j", "k", "l", "m",
      "n", "o", "p", "q", "r", "s", "t", "u", "v", "w", "x", "y", "z">>

\* ------------------------------------------------------------ input domains
Tasks == {"t1", "t2"}
\* the items of a batch run as t1, t2, ... in the order of the request's records
ItemTasks == <<"t1", "t2", "t3">>
AllTasks == {ItemTasks[i] : i \in 1..3}
Domains == {"s.test"}
Codes == {"a"}
Urls == {"https://a.example", "https://b.example"}
\* links are created with the first target and may be updated to either
CreateUrls == {"https://a.example"}
\* JS null / undefined, for string-valued fields
Null == "null"
\* expiresAt is a positive integer (urlRecordSchema); 0 stands for "not given" / null
NoExpiry == 0
ExpiresAtInputs == {1}
UserAgents == {"browser", "twitterbot"}

VARIABLES
    storeConfigOk,  \* the deployment's DB_TYPE / binding lets the client initialise
    kvBound,        \* c.env.SHORTENER_KV is configured
    dbInstance,     \* DatabaseManager.instance: "none" | "ok" | "broken"
    links,          \* the rows of table `links`, in insertion order (id = index)
    kv,             \* SHORTENER_KV: key -> entry (NoEntry when the key is absent)
    now,            \* Date.now(), in ms
    task,           \* the handler invocations in flight
    last,           \* the invocation that returned in the step just taken, if any
    opsLeft,        \* number of invocations that may still start
    created,        \* history: hashes that createLinks has reported as a success
    eager,          \* history: hashes whose url:{hash} was written by createLinks
    cacheFaulted,   \* history: a cache delete has thrown
    served,         \* history: the (hash, target) pairs GET /:shortCode has redirected to
    batch           \* the batch request being served: its items' results, its response

vars == <<storeConfigOk, kvBound, dbInstance, links, kv, now, task, last, opsLeft,
          created, eager, cacheFaulted, served, batch>>

\* ------------------------------------------------------------------ hashing
\* sha256 is modelled as an injective digest of its input string.
Sha256Hex(s) == "sha256(" \o s \o ")"

\* a digest of the short code alone
generateHashFromDomainAndCode_CodeOnly(domain, shortCode) == Sha256Hex(shortCode)

generateHashFromDomainAndCode(domain, shortCode) ==
    Sha256Hex(domain \o ":" \o shortCode)

Hashes == {generateHashFromDomainAndCode(d, c) : d \in Domains, c \in Codes}

\* ---------------------------------------------------------- short codes
\* A generated code is kept as the sequence of its characters.
RECURSIVE Join(_)
Join(chars) == IF chars = <<>> THEN "" ELSE Head(chars) \o Join(Tail(chars))

\* toBase62's loop on  num = hi * 1000000 + lo  (hi, lo < 1000000), the number
\* being divided by 62 in two limbs to stay inside the integers at hand:
\*   result = BASE62_CHARS[num % 62] + result; num = Math.floor(num / 62)
RECURSIVE Base62Loop(_, _, _)
Base62Loop(hi, lo, result) ==
    IF hi = 0 /\ lo = 0 THEN result
    ELSE LET low == (hi % Base) * Million + lo
         IN Base62Loop(hi \div Base, low \div Base,
                       <<BASE62_CHARS[(low % Base) + 1]>> \o result)

toBase62(hi, lo) ==
    IF hi = 0 /\ lo = 0 THEN <<BASE62_CHARS[1]>> ELSE Base62Loop(hi, lo, <<>>)

\* while (shortCode.length < length) shortCode = randomChar + shortCode ;
\* pad[n] is the n-th value of Math.floor(Math.random() * BASE62_CHARS.length)
RECURSIVE PadLeft(_, _, _, _)
PadLeft(shortCode, length, pad, n) ==
    IF Len(shortCode) < length
    THEN PadLeft(<<BASE62_CHARS[pad[n] + 1]>> \o shortCode, length, pad, n + 1)
    ELSE shortCode

\* generateRandomHash(length), with Date.now() = timestamp,
\* Math.floor(Math.random() * 1000000) = random and the padding draws `pad`
generateRandomHash(length, timestamp, random, pad) ==
    LET padded == PadLeft(toBase62(timestamp % Million, random), length, pad, 1)
    IN IF Len(padded) > length
       THEN SubSeq(padded, Len(padded) - length + 1, Len(padded))
       ELSE padded

\* a schedule that grows the code one attempt late
CodeLength_Late(attempt) == IF attempt <= 6 THEN 8 ELSE IF attempt <= 11 THEN 9 ELSE 10

\* generateUniqueHash: const length = attempt <= 5 ? 8 : attempt <= 10 ? 9 : 10
CodeLength(attempt) == IF attempt <= 5 THEN 8 ELSE IF attempt <= 10 THEN 9 ELSE 10

\* the values Math.random() takes while a link is created
RandomDraws == {0}
PadDraws == {[n \in 1..10 |-> 0]}

\* the short codes attempt `attempt` may come up with at time t
RandomCodesAt(attempt, t) ==
    {Join(generateRandomHash(CodeLength(attempt), t, r, p)) :
        r \in RandomDraws, p \in PadDraws}

\* custom codes of batch requests: codes the generator can come up with too
BatchCodes == RandomCodesAt(1, 0) \cup RandomCodesAt(6, 0)

\* the instants of the clock
Times == {a + b * HourMs : a \in 0..MaxMs, b \in 0..MaxHours}

AllCodes ==
    Codes \cup BatchCodes \cup UNION {RandomCodesAt(k, t) : k \in {1, 6, 11}, t \in Times}

AllHashes == {generateHashFromDomainAndCode(d, c) : d \in Domains, c \in AllCodes}

\* a default of one day
getDefaultExpiresAt_Day == now + 24 * HourMs

getDefaultExpiresAt == now + HourMs

\* the comparison of the expiry check turned around
isExpiredAt_Inverted(expiresAt, t) == expiresAt # NoExpiry /\ t < expiresAt

\* urlData.expiresAt && Date.now() > urlData.expiresAt
isExpiredAt(expiresAt, t) == expiresAt # NoExpiry /\ t > expiresAt

\* -------------------------------------------------------------------- store
RowIds == DOMAIN links

\* reads that forget the isDeleted filter
notDeleted_Forgotten(row) == TRUE

notDeleted(row) == row.isDeleted = 0

withNotDeleted(row, condition) == notDeleted(row) /\ condition

\* softDelete(), called at time `stamp`
softDelete(stamp) == [isDeleted |-> 1, updatedAt |-> stamp]

Min(a, b) == IF a <= b THEN a ELSE b

MinOf(S) == CHOOSE x \in S : \A y \in S : x <= y

\* .get(): the first matching row, as a set of at most one row
FirstRow(ids) == IF ids = {} THEN {} ELSE {links[MinOf(ids)]}

\* a probe that looks at active rows only
SelectByHash_ActiveOnly(hash) ==
    FirstRow({i \in RowIds : links[i].hash = hash /\ links[i].isDeleted = 0})

\* db.select().from(links).where(eq(links.hash, hash)).get()
SelectByHash(hash) == FirstRow({i \in RowIds : links[i].hash = hash})

\* db.select().from(links).where(withNotDeleted(links, eq(links.hash, hash))).get()
SelectActiveByHash(hash) ==
    FirstRow({i \in RowIds : withNotDeleted(links[i], links[i].hash = hash)})

\* uniqueIndex('links_hash') and uniqueIndex('links_short_code_domain')
UniqueIndexesAdmit(row) ==
    /\ \A i \in RowIds : links[i].hash # row.hash
    /\ \A i \in RowIds :
          ~(links[i].shortCode = row.shortCode /\ links[i].domain = row.domain)

\* userId: record.userId || '' ; attribute: record.attribute ; createdAt and
\* updatedAt by $defaultFn(() => new Date())
NewRow(url, userId, expiresAt, hash, shortCode, domain, attribute, stamp) ==
    [url |-> url, userId |-> IF userId = Null THEN "" ELSE userId,
     expiresAt |-> expiresAt, hash |-> hash, shortCode |-> shortCode,
     domain |-> domain, attribute |-> attribute, isDeleted |-> 0,
     createdAt |-> stamp, updatedAt |-> stamp]

\* The rows after  update(links).set(fields).where(cond), ids being the rows
\* that satisfy cond
\* a statement that removes as many rows as it matches
UpdateWhere_Removes(ids, fields) == SubSeq(links, 1, Len(links) - Cardinality(ids))

UpdateWhere(ids, fields) ==
    [i \in RowIds |->
        IF i \in ids
        THEN [f \in DOMAIN links[i] |->
                 IF f \in DOMAIN fields THEN fields[f] ELSE links[i][f]]
        ELSE links[i]]

\* the record a handler holds as urlData (or nothing)
NoData == [found |-> FALSE, url |-> Null, expiresAt |-> NoExpiry]
DataOf(url, expiresAt) == [found |-> TRUE, url |-> url, expiresAt |-> expiresAt]
DataOfRows(rows) ==
    IF rows = {} THEN NoData
    ELSE LET r == CHOOSE r \in rows : TRUE IN DataOf(r.url, r.expiresAt)

\* -------------------------------------------------------------------- cache
UrlKey(hash) == "url:" \o hash
OgKey(hash) == "og:" \o hash
\* the keys of the hashes requests may name and of the hashes stored
StoredHashes == {links[i].hash : i \in DOMAIN links}
Keys ==
    {UrlKey(h) : h \in AllHashes \cup StoredHashes}
    \cup {OgKey(h) : h \in AllHashes \cup StoredHashes}

\* an entry holds a record snapshot (url:{hash}) or a rendered page (og:{hash})
NoEntry == [present |-> FALSE, data |-> NoData, html |-> Null, putAt |-> 0, ttl |-> 0]

\* an entry put with expirationTtl is readable until the TTL has elapsed
EntryLive(e, t) == e.present /\ t < e.putAt + e.ttl * 1000

KvHas(key) == EntryLive(kv[key], now)

KvPutData(key, data, ttl) ==
    [kv EXCEPT ![key] = [present |-> TRUE, data |-> data, html |-> Null,
                         putAt |-> now, ttl |-> ttl]]

KvPutHtml(key, html, ttl) ==
    [kv EXCEPT ![key] = [present |-> TRUE, data |-> NoData, html |-> html,
                         putAt |-> now, ttl |-> ttl]]

\* a delete that is accepted and leaves the entry in place
KvDelete_Keeps(key) == kv

KvDelete(key) == [kv EXCEPT ![key] = NoEntry]

\* escapeHtml(targetUrl) set into the page template; the modelled targets hold
\* no character that escapeHtml rewrites
generateOgPageHtml(targetUrl) == "og-html:" \o targetUrl

\* -------------------------------------------------------- the store client
\* new DatabaseManager(c): the instance is registered before the client is
\* built, so a constructor that throws leaves an instance without a client.
UseDrizzleThrows == dbInstance = "none" /\ ~storeConfigOk

UseDrizzleInstance ==
    IF dbInstance = "none"
    THEN (IF storeConfigOk THEN "ok" ELSE "broken")
    ELSE dbInstance

\* useDrizzle(c): the client, or undefined
useDrizzle == IF UseDrizzleInstance = "ok" THEN "ok" ELSE "undef"

\* -------------------------------------------------------------------- tasks
NoRes == [kind |-> "none", val |-> Null]
Redirect(url) == [kind |-> "redirect", val |-> url]
NotFound(msg) == [kind |-> "notfound", val |-> msg]
Html(html) == [kind |-> "html", val |-> html]
ItemSuccess(hash) == [kind |-> "success", val |-> hash]
ItemFailure(msg) == [kind |-> "failure", val |-> msg]
Error500(msg) == [kind |-> "error500", val |-> msg]
SweepResult == [kind |-> "sweep", val |-> Null]

\* history kept with an invocation, for the properties only
NoGhost ==
    [src |-> "none", staleHit |-> FALSE, hitAge |-> 0, cacheErr |-> FALSE,
     getThrew |-> FALSE, tried |-> {}, accepted |-> {}, committed |-> FALSE,
     dup |-> FALSE, before |-> {}, probes |-> 0]

IdleTask ==
    [op |-> "none", pc |-> "idle", db |-> "undef", domain |-> Null, code |-> Null,
     ua |-> Null, hash |-> Null, url |-> Null, exp |-> NoExpiry, data |-> NoData,
     userId |-> Null, attr |-> Null,
     chars |-> <<>>,
     attempt |-> 0, cands |-> <<>>, idx |-> 0, currentTime |-> 0, stamp |-> 0,
     deletedCount |-> 0, cacheCleanedCount |-> 0, errors |-> <<>>, res |-> NoRes,
     g |-> NoGhost]

\* t2 serves a request only while t1 is busy (the two are interchangeable)
CanStart(t) ==
    /\ task[t].pc = "idle"
    /\ opsLeft > 0
    /\ t = "t2" => task["t1"].pc # "idle"

IsCrawler(userAgent) == userAgent \in {"facebookexternalhit", "twitterbot"}

\* the item (index in records / hashList) that task t runs
ItemOf(t) == CHOOSE i \in 1..3 : ItemTasks[i] = t

\* no batch request is being served
NoBatch ==
    [op |-> "none", phase |-> "idle", n |-> 0, records |-> <<>>, taken |-> {},
     results |-> <<>>, res |-> NoRes, successes |-> <<>>, failures |-> <<>>]

\* the invocation goes on as `tk`, or has returned: then the task is free
\* again and `last` shows, for this one state, what returned; the result of
\* a batch item is the item's element of `results`
Commit(t, tk) ==
    /\ batch' = IF batch.phase = "running" /\ tk.pc = "idle"
                THEN [batch EXCEPT !.results[ItemOf(t)] = tk]
                ELSE batch
    /\ task' = [task EXCEPT ![t] = IF tk.pc = "idle" THEN IdleTask ELSE tk]
    /\ last' = IF tk.pc = "idle" THEN tk ELSE IdleTask
    /\ served' = IF tk.pc = "idle" /\ tk.op = "resolve" /\ ~IsCrawler(tk.ua)
                    /\ tk.res.kind = "redirect"
                 THEN served \cup {[hash |-> tk.hash, url |-> tk.res.val]}
                 ELSE served

\* the handler returns `res`
Finish(tk, res) == [tk EXCEPT !.pc = "idle", !.res = res]

\* a cache call outside any try/catch: its error reaches the handler's catch
CacheErr_Escapes(cont, failed) == [failed EXCEPT !.g.cacheErr = TRUE]

\* a cache call threw inside its try/catch: the handler goes on as `cont`
\* (`failed` is the handler had the error escaped)
CacheErr(cont, failed) == [cont EXCEPT !.g.cacheErr = TRUE]

\* entries put for two hours
PutTtl_Doubled == 2 * CacheTtlSeconds

\* expirationTtl of the url:{hash} and og:{hash} puts
PutTtl == CacheTtlSeconds

\* ------------------------------------------------------- GET /:shortCode
\* the expiry check and the response, once urlData is known
ResolveCheck(tk, data) ==
    LET tk2 == [tk EXCEPT !.data = data]
    IN IF isExpiredAt(data.expiresAt, now)
       THEN IF kvBound
            THEN [tk2 EXCEPT !.pc = "r_del"]
            ELSE Finish(tk2, NotFound("Short code not found or expired"))
       ELSE Finish(tk2, Redirect(data.url))

StartResolve(t, domain, shortCode, userAgent) ==
    /\ CanStart(t)
    /\ opsLeft' = opsLeft - 1
    /\ dbInstance' = UseDrizzleInstance
    /\ LET hash == generateHashFromDomainAndCode(domain, shortCode)
           tk == [IdleTask EXCEPT !.op = "resolve", !.domain = domain,
                                  !.code = shortCode, !.ua = userAgent,
                                  !.hash = hash, !.db = useDrizzle,
                                  !.g.before = {p.url : p \in {q \in served : q.hash = hash}}]
       IN Commit(t,
            IF UseDrizzleThrows
            THEN Finish(tk, Error500("store client"))
            ELSE IF IsCrawler(userAgent)
            THEN Finish(tk, Redirect("/" \o shortCode \o "/og"))
            ELSE [tk EXCEPT !.pc = IF kvBound THEN "r_get" ELSE "r_db"])
    /\ UNCHANGED <<storeConfigOk, kvBound, links, kv, now, created, eager,
                   cacheFaulted>>

\* await SHORTENER_KV.get(cacheKey, 'json')
ResolveCacheGet(t) ==
    /\ task[t].pc = "r_get"
    /\ LET tk == task[t]
           key == UrlKey(tk.hash)
           e == kv[key]
       IN \/ /\ KvHas(key)
             /\ Commit(t,
                  ResolveCheck([tk EXCEPT !.g.src = "cache",
                                          !.g.hitAge = now - e.putAt,
                                          !.g.staleHit =
                                              (DataOfRows(SelectActiveByHash(tk.hash)) # e.data)],
                               e.data))
          \/ /\ ~KvHas(key)
             /\ Commit(t, [tk EXCEPT !.pc = "r_db"])
          \/ Commit(t,
                  CacheErr([tk EXCEPT !.pc = "r_db", !.g.getThrew = TRUE],
                           Finish(tk, Error500("cache"))))
    /\ UNCHANGED <<storeConfigOk, kvBound, dbInstance, links, kv, now,
                   opsLeft, created, eager, cacheFaulted>>

\* a resolver that caches the outcome of every store query, a miss included
Populates_Always(data) == TRUE

\* if (urlData && c.env.SHORTENER_KV): only a record that was found is cached
Populates(data) == data.found

\* await db?.select()...where(withNotDeleted(links, eq(links.hash, hash))).get() || null
ResolveDbSelect(t) ==
    /\ task[t].pc = "r_db"
    /\ LET tk == task[t]
           data == IF tk.db = "ok" THEN DataOfRows(SelectActiveByHash(tk.hash))
                   ELSE NoData
       IN Commit(t,
            IF Populates(data) /\ kvBound
            THEN [tk EXCEPT !.pc = "r_put", !.data = data, !.g.src = "store"]
            ELSE IF ~data.found
            THEN Finish(tk, NotFound("Short code not found or expired"))
            ELSE ResolveCheck([tk EXCEPT !.g.src = "store"], data))
    /\ UNCHANGED <<storeConfigOk, kvBound, dbInstance, links, kv, now,
                   opsLeft, created, eager, cacheFaulted>>

\* await SHORTENER_KV.put(cacheKey, JSON.stringify(urlData), { expirationTtl: 3600 })
ResolveCachePut(t) ==
    /\ task[t].pc = "r_put"
    /\ LET tk == task[t]
       IN \/ /\ kv' = KvPutData(UrlKey(tk.hash), tk.data, PutTtl)
             /\ Commit(t, ResolveCheck(tk, tk.data))
          \/ /\ kv' = kv
             /\ Commit(t,
                  CacheErr(ResolveCheck(tk, tk.data), Finish(tk, Error500("cache"))))
    /\ UNCHANGED <<storeConfigOk, kvBound, dbInstance, links, now, opsLeft,
                   created, eager, cacheFaulted>>

\* a resolver that soft-deletes the expired record it has read
RowsAfterExpiredRead_SoftDeletes(hash) ==
    UpdateWhere({i \in RowIds : links[i].hash = hash}, softDelete(now))

\* the rows after the expired branch of GET /:shortCode: it issues no store
\* statement
RowsAfterExpiredRead(hash) == links

\* the record is expired: await SHORTENER_KV.delete(cacheKey), then 404
ResolveCacheDelete(t) ==
    /\ task[t].pc = "r_del"
    /\ links' = RowsAfterExpiredRead(task[t].hash)
    /\ LET tk == task[t]
           key == UrlKey(tk.hash)
           done == Finish([tk EXCEPT !.g.tried = {key}],
                          NotFound("Short code not found or expired"))
       IN \/ /\ kv' = KvDelete(key)
             /\ cacheFaulted' = cacheFaulted
             /\ Commit(t, [done EXCEPT !.g.accepted = {key}])
          \/ /\ kv' = kv
             /\ cacheFaulted' = TRUE
             /\ Commit(t,
                  CacheErr(done, Finish(tk, Error500("cache"))))
    /\ UNCHANGED <<storeConfigOk, kvBound, dbInstance, now, opsLeft,
                   created, eager>>

\* ---------------------------------------------------- GET /:shortCode/og
StartOg(t, domain, shortCode) ==
    /\ CanStart(t)
    /\ opsLeft' = opsLeft - 1
    /\ dbInstance' = UseDrizzleInstance
    /\ LET hash == generateHashFromDomainAndCode(domain, shortCode)
           tk == [IdleTask EXCEPT !.op = "og", !.domain = domain,
                                  !.code = shortCode, !.hash = hash,
                                  !.db = useDrizzle]
       IN Commit(t,
            IF UseDrizzleThrows
            THEN Finish(tk, Error500("store client"))
            ELSE [tk EXCEPT !.pc = IF kvBound THEN "o_get" ELSE "o_db"])
    /\ UNCHANGED <<storeConfigOk, kvBound, links, kv, now, created, eager,
                   cacheFaulted>>

\* cachedHtml = await SHORTENER_KV.get(ogCacheKey)
OgCacheGet(t) ==
    /\ task[t].pc = "o_get"
    /\ LET tk == task[t]
           key == OgKey(tk.hash)
           e == kv[key]
       IN \/ /\ KvHas(key)
             /\ Commit(t,
                  Finish([tk EXCEPT !.g.src = "cache",
                                    !.g.hitAge = now - e.putAt],
                         Html(e.html)))
          \/ /\ ~KvHas(key)
             /\ Commit(t, [tk EXCEPT !.pc = "o_db"])
          \/ Commit(t,
                  CacheErr([tk EXCEPT !.pc = "o_db", !.g.getThrew = TRUE],
                           Finish(tk, Error500("cache"))))
    /\ UNCHANGED <<storeConfigOk, kvBound, dbInstance, links, kv, now,
                   opsLeft, created, eager, cacheFaulted>>

\* the store query, the expiry check and the rendering of the page
OgDbSelect(t) ==
    /\ task[t].pc = "o_db"
    /\ LET tk == task[t]
           data == IF tk.db = "ok" THEN DataOfRows(SelectActiveByHash(tk.hash))
                   ELSE NoData
       IN Commit(t,
            IF ~data.found
            THEN Finish(tk, NotFound("Short code not found"))
            ELSE IF isExpiredAt(data.expiresAt, now)
            THEN Finish(tk, NotFound("Short code expired"))
            ELSE IF kvBound
            THEN [tk EXCEPT !.pc = "o_put", !.data = data, !.g.src = "store"]
            ELSE Finish([tk EXCEPT !.g.src = "store"],
                        Html(generateOgPageHtml(data.url))))
    /\ UNCHANGED <<storeConfigOk, kvBound, dbInstance, links, kv, now,
                   opsLeft, created, eager, cacheFaulted>>

\* await SHORTENER_KV.put(ogCacheKey, html, { expirationTtl: 3600 })
OgCachePut(t) ==
    /\ task[t].pc = "o_put"
    /\ LET tk == task[t]
           html == generateOgPageHtml(tk.data.url)
           done == Finish(tk, Html(html))
       IN \/ /\ kv' = KvPutHtml(OgKey(tk.hash), html, PutTtl)
             /\ Commit(t, done)
          \/ /\ kv' = kv
             /\ Commit(t,
                  CacheErr(done, Finish(tk, Error500("cache"))))
    /\ UNCHANGED <<storeConfigOk, kvBound, dbInstance, links, now, opsLeft,
                   created, eager, cacheFaulted>>

\* ------------------------------------------------- POST /api/url, one item
\* attempt = 0 marks the custom-code path, 1..MaxRetries the random path
StartCreate(t, domain, url, customCode, expiresAt) ==
    /\ CanStart(t)
    /\ opsLeft' = opsLeft - 1
    /\ dbInstance' = UseDrizzleInstance
    /\ \E shortCode \in (IF customCode # Null THEN {customCode}
                         ELSE RandomCodesAt(1, now)) :
         LET hash == generateHashFromDomainAndCode(domain, shortCode)
             tk == [IdleTask EXCEPT !.op = "create", !.domain = domain,
                                  !.code = shortCode,
                                    !.hash = hash, !.url = url, !.exp = expiresAt,
                                    !.db = useDrizzle,
                                    !.attempt = IF customCode # Null THEN 0 ELSE 1]
         IN Commit(t,
              IF UseDrizzleThrows
              THEN Finish(tk, Error500("store client"))
              ELSE [tk EXCEPT !.pc = "c_probe"])
    /\ UNCHANGED <<storeConfigOk, kvBound, links, kv, now, created, eager,
                   cacheFaulted>>

\* an item's error reaching the handler's catch instead of the item's
ItemCatch_Rethrows(tk, msg) == Finish(tk, Error500(msg))

\* catch (error) of an item: { hash, success: false, error: errorMessage }
ItemCatch(tk, msg) == Finish(tk, ItemFailure(msg))

\* the loop of generateUniqueHash goes on to its next attempt
NextAttempt(tk, shortCode) ==
    [tk EXCEPT !.pc = "c_probe", !.attempt = tk.attempt + 1, !.code = shortCode,
               !.hash = generateHashFromDomainAndCode(tk.domain, shortCode)]

\* generateUniqueHash: existing = await db?.select()...where(eq(links.hash, hash)).get()
CreateProbe(t) ==
    /\ task[t].pc = "c_probe"
    /\ LET tk == [task[t] EXCEPT !.g.probes = @ + 1]
           existing == IF tk.db = "ok" THEN SelectByHash(tk.hash) ELSE {}
           \* const expiresAt = record.expiresAt || getDefaultExpiresAt()
           toInsert == [tk EXCEPT !.pc = "c_insert", !.stamp = now,
                                  !.exp = IF tk.exp # NoExpiry THEN tk.exp
                                          ELSE getDefaultExpiresAt]
       IN \/ /\ existing = {}
             /\ Commit(t, toInsert)
          \/ /\ existing # {}
             /\ tk.attempt = 0
             /\ Commit(t,
                  ItemCatch(tk, "Custom short code already exists"))
          \/ /\ existing # {}
             /\ tk.attempt >= 1
             /\ tk.attempt <= 5
             /\ \E shortCode \in RandomCodesAt(tk.attempt + 1, now) :
                  Commit(t, NextAttempt(tk, shortCode))
          \/ /\ existing # {}
             /\ tk.attempt > 5
             /\ Commit(t, [tk EXCEPT !.pc = "c_delay"])
    /\ UNCHANGED <<storeConfigOk, kvBound, dbInstance, links, kv, now,
                   opsLeft, created, eager, cacheFaulted>>

\* after a collision on attempt > 5:
\* await new Promise(resolve => setTimeout(resolve, Math.random() * 10)),
\* then the next attempt, or the error when the attempts are used up
CreateRetryDelay(t) ==
    /\ task[t].pc = "c_delay"
    /\ LET tk == task[t]
       IN IF tk.attempt < MaxRetries
          THEN \E shortCode \in RandomCodesAt(tk.attempt + 1, now) :
                  Commit(t, NextAttempt(tk, shortCode))
          ELSE Commit(t, ItemCatch(tk, "Failed to generate unique hash"))
    /\ UNCHANGED <<storeConfigOk, kvBound, dbInstance, links, kv, now,
                   opsLeft, created, eager, cacheFaulted>>

\* the item's result; a success is counted in the history
CreateReturns(t, fin) ==
    /\ Commit(t, [fin EXCEPT !.g.dup = (fin.res.kind = "success" /\ fin.hash \in created)])
    /\ created' = IF fin.res.kind = "success" THEN created \cup {fin.hash}
                  ELSE created

\* the insert is admitted when both unique indexes admit the row
InsertAdmitted(row) == UniqueIndexesAdmit(row)

\* await db?.insert(links).values({...})
CreateInsert(t) ==
    /\ task[t].pc = "c_insert"
    /\ LET tk == task[t]
           row == NewRow(tk.url, tk.userId, tk.exp, tk.hash, tk.code, tk.domain,
                         tk.attr, tk.stamp)
       IN IF tk.db = "ok" /\ ~InsertAdmitted(row)
          THEN /\ Commit(t,
                    ItemCatch(tk, "UNIQUE constraint failed"))
               /\ UNCHANGED <<links, created>>
          ELSE /\ links' = IF tk.db = "ok" THEN Append(links, row) ELSE links
               /\ IF kvBound
                  THEN /\ Commit(t,
                            [tk EXCEPT !.pc = "c_put", !.g.committed = (tk.db = "ok")])
                       /\ UNCHANGED created
                  ELSE CreateReturns(t, Finish([tk EXCEPT !.g.committed = (tk.db = "ok")],
                                               ItemSuccess(tk.hash)))
    /\ UNCHANGED <<storeConfigOk, kvBound, dbInstance, kv, now, opsLeft,
                   eager, cacheFaulted>>

\* await SHORTENER_KV.put(`url:${hash}`, JSON.stringify(cacheData), { expirationTtl: 3600 })
CreateCachePut(t) ==
    /\ task[t].pc = "c_put"
    /\ LET tk == task[t]
       IN \/ /\ kv' = KvPutData(UrlKey(tk.hash), DataOf(tk.url, tk.exp), PutTtl)
             /\ eager' = eager \cup {tk.hash}
             /\ CreateReturns(t, Finish(tk, ItemSuccess(tk.hash)))
          \/ /\ kv' = kv
             /\ eager' = eager
             /\ CreateReturns(t, CacheErr(Finish(tk, ItemSuccess(tk.hash)),
                                          Finish(tk, ItemFailure("cache"))))
    /\ UNCHANGED <<storeConfigOk, kvBound, dbInstance, links, now, opsLeft,
                   cacheFaulted>>

\* -------------------------------------------------- PUT /api/url, one item
\* url / expiresAt not given are Null / NoExpiry (undefined)
StartUpdate(t, hash, url, userId, expiresAt, attribute) ==
    /\ CanStart(t)
    /\ opsLeft' = opsLeft - 1
    /\ dbInstance' = UseDrizzleInstance
    /\ LET tk == [IdleTask EXCEPT !.op = "update", !.hash = hash, !.url = url,
                                  !.userId = userId, !.exp = expiresAt,
                                  !.attr = attribute, !.db = useDrizzle]
       IN Commit(t,
            IF UseDrizzleThrows
            THEN Finish(tk, Error500("store client"))
            ELSE [tk EXCEPT !.pc = "u_select"])
    /\ UNCHANGED <<storeConfigOk, kvBound, links, kv, now, created, eager,
                   cacheFaulted>>

\* updateData = { url, userId, expiresAt, attribute } of the request item; a
\* field the item does not have is undefined (Null, for expiresAt NoExpiry)
UpdateData(url, userId, expiresAt, attribute) ==
    [url |-> url, userId |-> userId, expiresAt |-> expiresAt, attribute |-> attribute]

NotProvided == [url |-> Null, userId |-> Null, expiresAt |-> NoExpiry, attribute |-> Null]

\* every field of the request item taken as provided
Provided_All(updateData) == DOMAIN updateData

\* Object.entries(updateData).filter(([, value]) => value !== undefined)
Provided(updateData) == {f \in DOMAIN updateData : updateData[f] # NotProvided[f]}

\* existingRecord = await db?.select()...where(withNotDeleted(links, eq(links.hash, record.hash))).get()
UpdateSelect(t) ==
    /\ task[t].pc = "u_select"
    /\ LET tk == task[t]
           existingRecord == IF tk.db = "ok" THEN SelectActiveByHash(tk.hash) ELSE {}
       IN Commit(t,
            IF existingRecord = {}
            THEN Finish(tk, ItemFailure("Record not found or already deleted"))
            ELSE IF Provided(UpdateData(tk.url, tk.userId, tk.exp, tk.attr)) = {}
            THEN Finish(tk, ItemFailure("No fields to update"))
            ELSE [tk EXCEPT !.pc = "u_update", !.stamp = now])
    /\ UNCHANGED <<storeConfigOk, kvBound, dbInstance, links, kv, now,
                   opsLeft, created, eager, cacheFaulted>>

\* fieldsToUpdate, with updatedAt's $onUpdateFn
FieldsToUpdate(updateData, stamp) ==
    [f \in Provided(updateData) \cup {"updatedAt"} |->
        IF f = "updatedAt" THEN stamp ELSE updateData[f]]

\* an update statement that matches by hash alone
UpdateMatches_AnyRow(row, hash) == row.hash = hash

\* the rows the update statement of PUT /api/url matches
UpdateMatches(row, hash) == withNotDeleted(row, row.hash = hash)

\* await db?.update(links).set(fieldsToUpdate).where(withNotDeleted(...)).execute()
UpdateWrite(t) ==
    /\ task[t].pc = "u_update"
    /\ LET tk == task[t]
           hit == {i \in RowIds : UpdateMatches(links[i], tk.hash)}
           wrote == tk.db = "ok" /\ hit # {}
           tk2 == [tk EXCEPT !.g.committed = wrote]
       IN /\ links' = IF tk.db = "ok"
                      THEN UpdateWhere(hit,
                             FieldsToUpdate(UpdateData(tk.url, tk.userId, tk.exp,
                                                       tk.attr), tk.stamp))
                      ELSE links
          /\ Commit(t,
               IF kvBound THEN [tk2 EXCEPT !.pc = "u_del"]
               ELSE Finish(tk2, ItemSuccess(tk.hash)))
    /\ UNCHANGED <<storeConfigOk, kvBound, dbInstance, kv, now, opsLeft,
                   created, eager, cacheFaulted>>

\* PUT /api/url clearing the preview key in place of the record key
UpdateClears_WrongKey(hash) == {OgKey(hash)}

\* the cache keys PUT /api/url clears
UpdateClears(hash) == {UrlKey(hash)}

\* await SHORTENER_KV.delete(`url:${record.hash}`)
UpdateCacheDelete(t) ==
    /\ task[t].pc = "u_del"
    /\ LET tk == task[t]
           keys == UpdateClears(tk.hash)
           done == Finish([tk EXCEPT !.g.tried = keys], ItemSuccess(tk.hash))
       IN \/ /\ kv' = [k \in Keys |-> IF k \in keys THEN NoEntry ELSE kv[k]]
             /\ cacheFaulted' = cacheFaulted
             /\ Commit(t, [done EXCEPT !.g.accepted = keys])
          \/ /\ kv' = kv
             /\ cacheFaulted' = TRUE
             /\ Commit(t,
                  CacheErr(done, Finish(tk, ItemFailure("cache"))))
    /\ UNCHANGED <<storeConfigOk, kvBound, dbInstance, links, now, opsLeft,
                   created, eager>>

\* ----------------------------------------------- DELETE /api/url, one item
StartDelete(t, hash) ==
    /\ CanStart(t)
    /\ opsLeft' = opsLeft - 1
    /\ dbInstance' = UseDrizzleInstance
    /\ LET tk == [IdleTask EXCEPT !.op = "delete", !.hash = hash,
                                  !.db = useDrizzle]
       IN Commit(t,
            IF UseDrizzleThrows
            THEN Finish(tk, Error500("store client"))
            ELSE [tk EXCEPT !.pc = "d_select"])
    /\ UNCHANGED <<storeConfigOk, kvBound, links, kv, now, created, eager,
                   cacheFaulted>>

\* a lookup by hash alone
DeleteLookupMatches_AnyRow(row, hash) == row.hash = hash

\* the rows the lookup of DELETE /api/url matches
DeleteLookupMatches(row, hash) == withNotDeleted(row, row.hash = hash)

\* record = await db?.select()...where(withNotDeleted(links, eq(links.hash, hash))).get()
DeleteSelect(t) ==
    /\ task[t].pc = "d_select"
    /\ LET tk == task[t]
           record == IF tk.db = "ok"
                     THEN {i \in RowIds : DeleteLookupMatches(links[i], tk.hash)}
                     ELSE {}
       IN Commit(t,
            IF record = {}
            THEN Finish(tk, ItemFailure("Record not found or already deleted"))
            ELSE [tk EXCEPT !.pc = "d_update", !.stamp = now])
    /\ UNCHANGED <<storeConfigOk, kvBound, dbInstance, links, kv, now,
                   opsLeft, created, eager, cacheFaulted>>

\* await db?.update(links).set(softDelete()).where(eq(links.hash, hash)).execute()
DeleteWrite(t) ==
    /\ task[t].pc = "d_update"
    /\ LET tk == task[t]
           hit == {i \in RowIds : links[i].hash = tk.hash}
           tk2 == [tk EXCEPT !.g.committed = (tk.db = "ok")]
       IN /\ links' = IF tk.db = "ok" THEN UpdateWhere(hit, softDelete(tk.stamp)) ELSE links
          /\ Commit(t,
               IF kvBound THEN [tk2 EXCEPT !.pc = "d_delurl"]
               ELSE Finish(tk2, ItemSuccess(tk.hash)))
    /\ UNCHANGED <<storeConfigOk, kvBound, dbInstance, kv, now, opsLeft,
                   created, eager, cacheFaulted>>

\* await SHORTENER_KV.delete(`url:${hash}`)
DeleteCacheUrl(t) ==
    /\ task[t].pc = "d_delurl"
    /\ LET tk == [task[t] EXCEPT !.g.tried = {UrlKey(task[t].hash)}]
       IN \/ /\ kv' = KvDelete(UrlKey(tk.hash))
             /\ cacheFaulted' = cacheFaulted
             /\ Commit(t, [tk EXCEPT !.pc = "d_delog",
                                      !.g.accepted = {UrlKey(tk.hash)}])
          \/ /\ kv' = kv
             /\ cacheFaulted' = TRUE
             /\ Commit(t,
                  \* both deletes share one try block: the catch is next
                  CacheErr(Finish(tk, ItemSuccess(tk.hash)),
                           Finish(tk, ItemFailure("cache"))))
    /\ UNCHANGED <<storeConfigOk, kvBound, dbInstance, links, now, opsLeft,
                   created, eager>>

\* await SHORTENER_KV.delete(`og:${hash}`)
DeleteCacheOg(t) ==
    /\ task[t].pc = "d_delog"
    /\ LET tk == task[t]
           done == Finish([tk EXCEPT !.g.tried = @ \cup {OgKey(tk.hash)}],
                          ItemSuccess(tk.hash))
       IN \/ /\ kv' = KvDelete(OgKey(tk.hash))
             /\ cacheFaulted' = cacheFaulted
             /\ Commit(t, [done EXCEPT !.g.accepted = @ \cup {OgKey(tk.hash)}])
          \/ /\ kv' = kv
             /\ cacheFaulted' = TRUE
             /\ Commit(t,
                  CacheErr(done, Finish(tk, ItemFailure("cache"))))
    /\ UNCHANGED <<storeConfigOk, kvBound, dbInstance, links, now, opsLeft,
                   created, eager>>

\* ------------------------------------------------------ cleanupExpiredLinks
\* the batch (0-based) of the i-th candidate, and the bounds of a batch
BatchOf(i) == (i - 1) \div BATCH_SIZE
BatchFirst(b) == b * BATCH_SIZE + 1
BatchLast(b, n) == Min((b + 1) * BATCH_SIZE, n)

\* select().from(links).where(withNotDeleted(links, lt(links.expiresAt, currentTime)))
\* a query that also takes the rows expiring at currentTime
SweepCandidate_Inclusive(row, currentTime) ==
    withNotDeleted(row, row.expiresAt # NoExpiry /\ row.expiresAt <= currentTime)

\* a query without the isDeleted = 0 condition
SweepCandidate_AnyRow(row, currentTime) ==
    row.expiresAt # NoExpiry /\ row.expiresAt < currentTime

SweepCandidate(row, currentTime) ==
    withNotDeleted(row, row.expiresAt # NoExpiry /\ row.expiresAt < currentTime)

RECURSIVE HashesOf(_, _)
HashesOf(ids, i) ==
    IF i > Len(links) THEN <<>>
    ELSE (IF i \in ids THEN <<links[i].hash>> ELSE <<>>) \o HashesOf(ids, i + 1)

\* a sweep whose end is an exception instead of the summary
SweepFinish_Raises(tk) == Finish(tk, Error500("sweep"))

SweepFinish(tk) == Finish(tk, SweepResult)

\* an outer catch that returns the summary without the error
SweepFails_Silent(tk, msg) == SweepFinish(tk)

SweepFails(tk, msg) == SweepFinish([tk EXCEPT !.errors = Append(@, msg)])

StartSweep(t) ==
    /\ CanStart(t)
    /\ opsLeft' = opsLeft - 1
    /\ dbInstance' = UseDrizzleInstance
    /\ LET tk == [IdleTask EXCEPT !.op = "sweep", !.db = useDrizzle]
       IN Commit(t,
            IF UseDrizzleThrows \/ useDrizzle # "ok"
            THEN SweepFails(tk, "Cleanup task failed")
            ELSE [tk EXCEPT !.pc = "s_query", !.currentTime = now])
    /\ UNCHANGED <<storeConfigOk, kvBound, links, kv, now, created, eager,
                   cacheFaulted>>

\* expiredLinks = await db.select()...
SweepQuery(t) ==
    /\ task[t].pc = "s_query"
    /\ LET tk == [task[t] EXCEPT !.g.probes = @ + 1]
           ids == {i \in RowIds : SweepCandidate(links[i], tk.currentTime)}
           expiredLinks == HashesOf(ids, 1)
       IN \/ Commit(t,
               IF Len(expiredLinks) = 0
               THEN SweepFinish(tk)
               ELSE [tk EXCEPT !.pc = "s_delete", !.cands = expiredLinks, !.idx = 1,
                               !.stamp = now])
          \* the query rejects: the outer catch
          \/ Commit(t, SweepFails(tk, "Cleanup task failed"))
    /\ UNCHANGED <<storeConfigOk, kvBound, dbInstance, links, kv, now,
                   opsLeft, created, eager, cacheFaulted>>

\* a sweep that returns after its first batch
SweepNextBatch_Stops(tk, b) == SweepFinish(tk)

\* after the cache loop of batch b (or its delete loop when no cache is bound)
SweepNextBatch(tk, b) ==
    IF BatchLast(b, Len(tk.cands)) < Len(tk.cands)
    THEN [tk EXCEPT !.pc = "s_delete", !.idx = BatchFirst(b + 1), !.stamp = now]
    ELSE SweepFinish(tk)

\* whether an operation of the sweep may reject: at most MaxFaults do
MayThrow(tk) == IF Len(tk.errors) < MaxFaults THEN BOOLEAN ELSE {FALSE}

\* a sweep that counts a soft-delete before it is known to have succeeded
SweepDeleted_CountsFailures(tk, thrown) ==
    IF thrown
    THEN [tk EXCEPT !.deletedCount = @ + 1,
                    !.errors = Append(@, "Failed to delete link")]
    ELSE [tk EXCEPT !.deletedCount = @ + 1, !.g.committed = TRUE]

\* the summary after the try/catch around one soft-delete:
\* result.deletedCount++ after the update, or, in catch (deleteError),
\* result.errors.push(errorMsg)
SweepDeleted(tk, thrown) ==
    IF thrown
    THEN [tk EXCEPT !.errors = Append(@, "Failed to delete link")]
    ELSE [tk EXCEPT !.deletedCount = @ + 1, !.g.committed = TRUE]

\* await db.update(links).set(softDelete()).where(eq(links.hash, hash)).execute()
SweepDelete(t) ==
    /\ task[t].pc = "s_delete"
    /\ LET tk == task[t]
           hash == tk.cands[tk.idx]
           b == BatchOf(tk.idx)
           hit == {i \in RowIds : links[i].hash = hash}
       IN \E thrown \in MayThrow(tk) :
            LET tk2 == SweepDeleted(tk, thrown)
            IN /\ links' = IF thrown THEN links
                           ELSE UpdateWhere(hit, softDelete(tk.stamp))
               /\ Commit(t,
                    IF tk.idx < BatchLast(b, Len(tk.cands))
                    THEN [tk2 EXCEPT !.idx = tk.idx + 1, !.stamp = now]
                    ELSE IF kvBound
                    THEN [tk2 EXCEPT !.pc = "s_cache", !.idx = BatchFirst(b)]
                    ELSE SweepNextBatch(tk2, b))
    /\ UNCHANGED <<storeConfigOk, kvBound, dbInstance, kv, now, opsLeft,
                   created, eager, cacheFaulted>>

\* await Promise.all([KV.delete(cacheKey), KV.delete(ogCacheKey)]): both deletes
\* are issued; `thrown` are the keys whose delete rejects
SweepCache(t) ==
    /\ task[t].pc = "s_cache"
    /\ LET tk == task[t]
           hash == tk.cands[tk.idx]
           b == BatchOf(tk.idx)
           both == {UrlKey(hash), OgKey(hash)}
       IN \E thrown \in {S \in SUBSET both : S = {} \/ TRUE \in MayThrow(tk)} :
            LET tk2 == [tk EXCEPT !.g.tried = @ \cup both,
                                  !.g.accepted = @ \cup (both \ thrown)]
                tk3 == IF thrown = {}
                       THEN [tk2 EXCEPT !.cacheCleanedCount = @ + 1]
                       ELSE [tk2 EXCEPT !.errors = Append(@, "Failed to clear cache"),
                                        !.g.cacheErr = TRUE]
            IN /\ kv' = [k \in Keys |->
                          IF k \in both \ thrown THEN NoEntry ELSE kv[k]]
               /\ cacheFaulted' = (cacheFaulted \/ thrown # {})
               /\ Commit(t,
                    IF tk.idx < BatchLast(b, Len(tk.cands))
                    THEN [tk3 EXCEPT !.idx = tk.idx + 1]
                    ELSE SweepNextBatch(tk3, b))
    /\ UNCHANGED <<storeConfigOk, kvBound, dbInstance, links, now, opsLeft,
                   created, eager>>

\* ------------------------------------- POST / PUT / DELETE /api/url, a batch
BatchHashes == {generateHashFromDomainAndCode(d, c) : d \in Domains, c \in BatchCodes}
BatchUrls == {"https://b.example"}

\* c.json({ code: 0, message: 'ok', data: { successes, failures } })
BatchOk == [kind |-> "ok", val |-> Null]

CanStartBatch ==
    /\ batch.phase \in {"idle", "returned"}
    /\ opsLeft > 0
    /\ \A t \in AllTasks : task[t].pc = "idle"

\* results = await Promise.all(records.map(async ...)): every item has run to
\* its first await.  `taken` (history) are the items whose hash has a row now.
BatchRunning(op, records, items) ==
    [NoBatch EXCEPT !.op = op, !.phase = "running", !.n = Len(records),
                    !.records = records,
                    !.taken = {i \in 1..Len(records) :
                                 \E j \in RowIds : links[j].hash = items[i].hash},
                    !.results = [i \in 1..Len(records) |-> IdleTask]]

\* useDrizzle(c) threw: the handler's catch answers 500
BatchFailed(op, records) ==
    [NoBatch EXCEPT !.op = op, !.phase = "returned", !.n = Len(records),
                    !.records = records, !.res = Error500("store client")]

\* the handler up to  await Promise.all(...)
StartBatch(op, records, items) ==
    /\ opsLeft' = opsLeft - 1
    /\ dbInstance' = UseDrizzleInstance
    /\ last' = IdleTask
    /\ IF UseDrizzleThrows
       THEN /\ batch' = BatchFailed(op, records)
            /\ task' = task
       ELSE /\ batch' = BatchRunning(op, records, items)
            /\ task' = [t \in AllTasks |->
                          IF ItemOf(t) <= Len(records) THEN items[ItemOf(t)]
                          ELSE IdleTask]
    /\ UNCHANGED <<storeConfigOk, kvBound, links, kv, now, created, eager,
                   cacheFaulted, served>>

\* a custom code handled as a generated one, to be replaced on a collision
FirstAttempt_Generated(customCode) == 1

\* if (record.hash): the custom code is probed once, outside the loop (attempt
\* 0); the loop starts with attempt = 1
FirstAttempt(customCode) == IF customCode # Null THEN 0 ELSE 1

\* an item of POST /api/url at its first await (the probe of generateUniqueHash)
CreateItem(domain, url, customCode, shortCode) ==
    [IdleTask EXCEPT !.op = "create", !.pc = "c_probe", !.domain = domain,
                     !.code = shortCode,
                     !.hash = generateHashFromDomainAndCode(domain, shortCode),
                     !.url = url, !.db = useDrizzle,
                     !.attempt = FirstAttempt(customCode)]

\* POST /api/url { records }: records[i] is the item's custom code, or Null
StartCreateBatch(domain, url, records) ==
    /\ CanStartBatch
    /\ \E generated \in [1..Len(records) -> RandomCodesAt(1, now)] :
          StartBatch("create", records,
                     [i \in 1..Len(records) |->
                         CreateItem(domain, url, records[i],
                                    IF records[i] # Null THEN records[i]
                                    ELSE generated[i])])

\* PUT /api/url { records }: records[i] is the item's hash, the url is set
StartUpdateBatch(url, records) ==
    /\ CanStartBatch
    /\ StartBatch("update", records,
               [i \in 1..Len(records) |->
                   [IdleTask EXCEPT !.op = "update", !.pc = "u_select",
                                    !.hash = records[i], !.url = url,
                                    !.db = useDrizzle]])

\* DELETE /api/url { hashList }
StartDeleteBatch(hashList) ==
    /\ CanStartBatch
    /\ StartBatch("delete", hashList,
               [i \in 1..Len(hashList) |->
                   [IdleTask EXCEPT !.op = "delete", !.pc = "d_select",
                                    !.hash = hashList[i], !.db = useDrizzle]])

IsSuccess(result) == result.res.kind = "success"
IsFailure(result) == ~IsSuccess(result)

\* Promise.all has resolved: successes = results.filter((r) => r.success),
\* failures = results.filter((r) => !r.success), and the response
BatchReturns ==
    /\ batch.phase = "running"
    /\ \A i \in 1..batch.n : batch.results[i].op # "none"
    /\ batch' = [batch EXCEPT !.phase = "returned", !.res = BatchOk,
                              !.successes = SelectSeq(batch.results, IsSuccess),
                              !.failures = SelectSeq(batch.results, IsFailure)]
    /\ last' = IdleTask
    /\ UNCHANGED <<storeConfigOk, kvBound, dbInstance, links, kv, now, task,
                   opsLeft, created, eager, cacheFaulted, served>>

\* ------------------------------------------------ generateUniqueHash, a try
\* the inputs a candidate is computed from
GenTimestamps == {0, 1, 999999, 1000000, 3600000}
GenRandoms == {0, 1, 61, 62, 999999}
GenPads == {[n \in 1..10 |-> c] : c \in {0, 61}} \cup {[n \in 1..10 |-> (7 * n) % Base]}

\* one pass of the loop's head: the length of attempt `attempt`, the code
GenerateCandidate ==
    /\ last.op = "none"
    /\ \E attempt \in 1..MaxRetries, timestamp \in GenTimestamps,
       random \in GenRandoms, pad \in GenPads :
         LET length == CodeLength(attempt)
             chars == generateRandomHash(length, timestamp, random, pad)
         IN last' = [IdleTask EXCEPT !.op = "generate", !.attempt = attempt,
                                     !.stamp = timestamp, !.chars = chars,
                                     !.code = Join(chars)]
    /\ UNCHANGED <<storeConfigOk, kvBound, dbInstance, links, kv, now,
                   task, opsLeft, created, eager, cacheFaulted, served, batch>>

\* -------------------------------------------------------------------- clock
\* time passes; entries whose TTL has elapsed are gone from the cache
Advance(d) ==
    /\ now' = now + d
    /\ kv' = [k \in Keys |-> IF EntryLive(kv[k], now + d) THEN kv[k] ELSE NoEntry]
    /\ last' = IdleTask
    /\ UNCHANGED <<storeConfigOk, kvBound, dbInstance, links, task, opsLeft, served,
                   created, eager, cacheFaulted, batch>>

TickMs == now % HourMs < MaxMs /\ Advance(1)

TickHour == now \div HourMs < MaxHours /\ Advance(HourMs)

\* ------------------------------------------------------------ specification
Deployed ==
    /\ storeConfigOk \in BOOLEAN
    /\ kvBound \in BOOLEAN
    /\ dbInstance = "none"
    /\ links = <<>>
    /\ kv = [k \in Keys |-> NoEntry]
    /\ now = 0
    /\ task = [t \in AllTasks |-> IdleTask]
    /\ last = IdleTask
    /\ created = {}
    /\ eager = {}
    /\ cacheFaulted = FALSE
    /\ served = {}
    /\ batch = NoBatch

\* overlapping requests
Init == Deployed /\ opsLeft = MaxOps

\* requests served one at a time
InitSeq == Deployed /\ opsLeft = MaxSeqOps

\* a request arrives
Start(t) ==
    \/ \E d \in Domains, c \in Codes, ua \in UserAgents : StartResolve(t, d, c, ua)
    \/ \E d \in Domains, c \in Codes : StartOg(t, d, c)
    \/ \E d \in Domains, u \in CreateUrls, c \in Codes \cup {Null},
          e \in ExpiresAtInputs \cup {NoExpiry} : StartCreate(t, d, u, c, e)
    \/ \E h \in Hashes, u \in Urls \cup {Null},
          e \in ExpiresAtInputs \cup {NoExpiry} : StartUpdate(t, h, u, Null, e, Null)
    \/ \E h \in Hashes : StartDelete(t, h)
    \/ StartSweep(t)

Step(t) ==
    \/ ResolveCacheGet(t) \/ ResolveDbSelect(t) \/ ResolveCachePut(t)
    \/ ResolveCacheDelete(t)
    \/ OgCacheGet(t) \/ OgDbSelect(t) \/ OgCachePut(t)
    \/ CreateProbe(t) \/ CreateRetryDelay(t) \/ CreateInsert(t) \/ CreateCachePut(t)
    \/ UpdateSelect(t) \/ UpdateWrite(t) \/ UpdateCacheDelete(t)
    \/ DeleteSelect(t) \/ DeleteWrite(t) \/ DeleteCacheUrl(t) \/ DeleteCacheOg(t)
    \/ SweepQuery(t) \/ SweepDelete(t) \/ SweepCache(t)

\* overlapping requests, the clock moving by hours
Next ==
    \/ \E t \in Tasks : Start(t)
    \/ \E t \in Tasks : Step(t)
    \/ TickHour

Spec == Init /\ [][Next]_vars

\* requests served one at a time, the clock moving by milliseconds
NextSeq ==
    \/ Start("t1")
    \/ Step("t1")
    \/ TickMs

SeqSpec == InitSeq /\ [][NextSeq]_vars

\* batch requests served one after another, their items interleaved
InitBatch == Deployed /\ opsLeft = MaxBatches

\* the sequences of 1..MaxItems elements of S
Records(S) == UNION {[1..n -> S] : n \in 1..MaxItems}

\* the records of a POST /api/url: custom codes, and at most one item without
CreateRecords ==
    {r \in Records(BatchCodes \cup {Null}) :
        Cardinality({i \in DOMAIN r : r[i] = Null}) <= 1}

ItemStep(t) ==
    \/ CreateProbe(t) \/ CreateRetryDelay(t) \/ CreateInsert(t) \/ CreateCachePut(t)
    \/ UpdateSelect(t) \/ UpdateWrite(t) \/ UpdateCacheDelete(t)
    \/ DeleteSelect(t) \/ DeleteWrite(t) \/ DeleteCacheUrl(t) \/ DeleteCacheOg(t)

NextBatch ==
    \/ \E d \in Domains, u \in CreateUrls, r \in CreateRecords :
          StartCreateBatch(d, u, r)
    \/ \E u \in BatchUrls, r \in Records(BatchHashes) : StartUpdateBatch(u, r)
    \/ \E r \in Records(BatchHashes) : StartDeleteBatch(r)
    \/ \E t \in AllTasks : ItemStep(t)
    \/ BatchReturns

BatchSpec == InitBatch /\ [][NextBatch]_vars

\* candidates of the random path, computed from drawn inputs
InitGen == Deployed /\ opsLeft = MaxOps

\* POST /api/url with one record that has no custom code
StartGeneratedCreate ==
    \E d \in Domains, u \in BatchUrls : StartCreate("t1", d, u, Null, NoExpiry)

NextGen ==
    \/ GenerateCandidate
    \/ StartGeneratedCreate
    \/ CreateProbe("t1") \/ CreateRetryDelay("t1")
    \/ CreateInsert("t1") \/ CreateCachePut("t1")

GenSpec == InitGen /\ [][NextGen]_vars

\* ------------------------------------------------- updates of every field
\* the values of userId and attribute a PUT item may carry
UserIds == {"u1"}
Attributes == {"x"}

InitFields == Deployed /\ opsLeft = MaxOps

\* POST, PUT with any subset of the four fields, DELETE
StartFields(t) ==
    \/ \E d \in Domains, u \in CreateUrls, c \in Codes :
          StartCreate(t, d, u, c, NoExpiry)
    \/ \E h \in Hashes, u \in Urls \cup {Null}, id \in UserIds \cup {Null},
          e \in ExpiresAtInputs \cup {NoExpiry}, a \in Attributes \cup {Null} :
          StartUpdate(t, h, u, id, e, a)
    \/ \E h \in Hashes : StartDelete(t, h)

StepFields(t) ==
    \/ CreateProbe(t) \/ CreateInsert(t) \/ CreateCachePut(t)
    \/ UpdateSelect(t) \/ UpdateWrite(t) \/ UpdateCacheDelete(t)
    \/ DeleteSelect(t) \/ DeleteWrite(t) \/ DeleteCacheUrl(t) \/ DeleteCacheOg(t)

NextFields == \E t \in Tasks : StartFields(t) \/ StepFields(t)

FieldsSpec == InitFields /\ [][NextFields]_vars

\* ------------------------------------------------ the sweep over many rows
\* links created at time 0 with expiresAt = 1 (SweepCode(1..n)), one created
\* with expiresAt = SweepTime and one with the default expiry
SweepCode(i) == "x" \o ToString(i)
SweepTime == MinOf(ExpiresAtInputs) + 1

SweepRow(shortCode, expiresAt) ==
    NewRow("https://a.example", Null, expiresAt,
           generateHashFromDomainAndCode("s.test", shortCode), shortCode, "s.test",
           Null, 0)

SweepRows(n) ==
    [i \in 1..(n + 2) |->
        IF i <= n THEN SweepRow(SweepCode(i), MinOf(ExpiresAtInputs))
        ELSE IF i = n + 1 THEN SweepRow("b", SweepTime)
        ELSE SweepRow("a", HourMs)]

\* the store and the cache at time SweepTime, the links having been created
\* (url:{hash} written when the cache is bound) and the first one previewed
InitSweep ==
    /\ storeConfigOk = TRUE
    /\ kvBound \in BOOLEAN
    /\ dbInstance = "ok"
    /\ links = SweepRows(MaxExpired)
    /\ now = SweepTime
    /\ kv = [k \in Keys |->
               IF ~kvBound THEN NoEntry
               ELSE IF \E i \in DOMAIN links : k = UrlKey(links[i].hash)
               THEN LET i == CHOOSE i \in DOMAIN links : k = UrlKey(links[i].hash)
                    IN [present |-> TRUE,
                        data |-> DataOf(links[i].url, links[i].expiresAt),
                        html |-> Null, putAt |-> 0, ttl |-> PutTtl]
               ELSE IF k = OgKey(links[1].hash)
               THEN [present |-> TRUE, data |-> NoData,
                     html |-> generateOgPageHtml(links[1].url),
                     putAt |-> 0, ttl |-> PutTtl]
               ELSE NoEntry]
    /\ task = [t \in AllTasks |-> IdleTask]
    /\ last = IdleTask
    /\ opsLeft = MaxSweeps
    /\ created = StoredHashes
    /\ eager = IF kvBound THEN StoredHashes ELSE {}
    /\ cacheFaulted = FALSE
    /\ served = {}
    /\ batch = NoBatch

NextSweep ==
    \/ StartSweep("t1")
    \/ SweepQuery("t1") \/ SweepDelete("t1") \/ SweepCache("t1")

SweepSpec == InitSweep /\ [][NextSweep]_vars

\* a sweep that has started is resumed at each of its awaits
SweepStep == SweepQuery("t1") \/ SweepDelete("t1") \/ SweepCache("t1")

FairSweepSpec == SweepSpec /\ WF_vars(SweepStep)

\* ------------------------------------- a sweep overlapping with renewals
\* an expiresAt one hour after the sweep's time
RenewedExpiresAt == SweepTime + HourMs

\* the store of InitSweep with MaxRenewable expired links
InitRenew ==
    /\ storeConfigOk = TRUE
    /\ kvBound \in BOOLEAN
    /\ dbInstance = "ok"
    /\ links = SweepRows(MaxRenewable)
    /\ now = SweepTime
    /\ kv = [k \in Keys |->
               IF kvBound /\ \E i \in DOMAIN links : k = UrlKey(links[i].hash)
               THEN LET i == CHOOSE i \in DOMAIN links : k = UrlKey(links[i].hash)
                    IN [present |-> TRUE,
                        data |-> DataOf(links[i].url, links[i].expiresAt),
                        html |-> Null, putAt |-> 0, ttl |-> PutTtl]
               ELSE NoEntry]
    /\ task = [t \in AllTasks |-> IdleTask]
    /\ last = IdleTask
    /\ opsLeft = MaxOps
    /\ created = StoredHashes
    /\ eager = IF kvBound THEN StoredHashes ELSE {}
    /\ cacheFaulted = FALSE
    /\ served = {}
    /\ batch = NoBatch

\* PUT /api/url { records: [{ hash, expiresAt }] } for an expired link
StartRenew(t) ==
    \E i \in 1..MaxRenewable :
        StartUpdate(t, links[i].hash, Null, Null, RenewedExpiresAt, Null)

\* the sweep as t1, renewals as t2 while the sweep runs
NextRenew ==
    \/ StartSweep("t1")
    \/ SweepQuery("t1") \/ SweepDelete("t1") \/ SweepCache("t1")
    \/ StartRenew("t2")
    \/ UpdateSelect("t2") \/ UpdateWrite("t2") \/ UpdateCacheDelete("t2")

RenewSpec == InitRenew /\ [][NextRenew]_vars

\* ------------------------------------------- a cache that never fails
\* no cache call of any invocation, running or just returned, has thrown
CacheOk ==
    /\ ~cacheFaulted
    /\ ~last.g.cacheErr
    /\ \A t \in AllTasks : ~task[t].g.cacheErr

\* overlapping requests, every SHORTENER_KV call being fulfilled
NextQuiet ==
    \/ \E t \in Tasks : Start(t) /\ CacheOk'
    \/ \E t \in Tasks : Step(t) /\ CacheOk'
    \/ TickHour

QuietSpec == Init /\ [][NextQuiet]_vars

\* ------------------------------------------------------------ properties
\* `last` is the invocation that returned in the step just taken.
RedirectPath == last.op = "resolve" /\ ~IsCrawler(last.ua)

PreviewPath == last.op = "og"

OldUrl == "https://a.example"
NewUrl == "https://b.example"

\* the row (rows, were the index broken) of a hash
RowsOf(hash) == {i \in RowIds : links[i].hash = hash}

ActiveRowsOf(hash) == {i \in RowsOf(hash) : links[i].isDeleted = 0}

DeletedRowsOf(hash) == {i \in RowsOf(hash) : links[i].isDeleted = 1}

PastExpiry(row, t) == row.expiresAt # NoExpiry /\ t > row.expiresAt

\* C1: under any interleaving of createLinks requests, no item is reported as a
\* success for a hash that an earlier item was already reported as a success
\* for, no two store rows share a hash, and no two active rows share
\* (shortCode, domain).
C1_Uniqueness ==
    /\ ~last.g.dup
    /\ \A i, j \in RowIds : i # j => links[i].hash # links[j].hash
    /\ \A i, j \in RowIds :
          (i # j /\ links[i].isDeleted = 0 /\ links[j].isDeleted = 0)
              => ~(/\ links[i].shortCode = links[j].shortCode
                   /\ links[i].domain = links[j].domain)

\* the second resolve of  create, resolve, update of the target, resolve :
\* a redirect-path resolve returns while the link, whose old target an earlier
\* resolve has served, is active, unexpired and targets the new URL
C2_SecondResolve(i) ==
    /\ RedirectPath
    /\ links[i].hash = last.hash
    /\ links[i].isDeleted = 0
    /\ links[i].url = NewUrl
    /\ ~PastExpiry(links[i], now)
    /\ OldUrl \in last.g.before

C3_ResolveOfDeleted ==
    /\ RedirectPath \/ PreviewPath
    /\ DeletedRowsOf(last.hash) # {}

C5_StalenessBounded ==
    /\ \A k \in Keys : kv[k].present => now - kv[k].putAt < CacheTtlSeconds * 1000
    /\ (last.op = "resolve" /\ last.g.staleHit)
          => /\ last.g.src = "cache"
             /\ last.g.hitAge < CacheTtlSeconds * 1000
    /\ (last.op = "resolve" /\ last.res.kind = "redirect" /\ ~IsCrawler(last.ua))
          => last.g.src \in {"cache", "store"}

\* C5 witness: after an update or a soft-delete has committed, a resolve
\* redirects to the pre-mutation target, from the cache.
C5_Witness ==
    /\ last.op = "resolve"
    /\ last.g.staleHit
    /\ last.res.kind = "redirect"
    /\ \E i \in RowsOf(last.hash) :
          links[i].isDeleted = 1 \/ links[i].url # last.res.val

\* C6: a url:{h} or og:{h} entry is in the cache only if a row with hash h has
\* been committed to the store.
C6_StoreCommitPrecedesCacheWrite ==
    \A h \in Hashes :
        (kv[UrlKey(h)].present \/ kv[OgKey(h)].present) => RowsOf(h) # {}

\* what GET /:shortCode answers from the store alone
C7_StoreOutcome(hash) ==
    IF \E i \in ActiveRowsOf(hash) : ~PastExpiry(links[i], now)
    THEN Redirect(links[CHOOSE i \in ActiveRowsOf(hash) : TRUE].url)
    ELSE NotFound("Short code not found or expired")

\* C7: with requests run one after another, an operation in which a cache call
\* threw is no error: a mutation has done its store write and reports the item
\* as a success, and a resolve that got nothing from the cache answers what the
\* store alone gives.
C7_CacheErrorsSwallowed ==
    (last.op \in {"resolve", "create", "update", "delete"} /\ last.g.cacheErr)
        => /\ last.res.kind \in {"redirect", "notfound", "success"}
           /\ last.op # "resolve"
                => /\ last.res = ItemSuccess(last.hash)
                   /\ last.db = "ok" => last.g.committed
           /\ (last.op = "resolve" /\ last.g.src # "cache")
                => last.res = C7_StoreOutcome(last.hash)

\* C7 witness: the cache get of a resolve threw and the resolve redirects to
\* the target it read from the store.
C7_Witness ==
    /\ last.op = "resolve"
    /\ last.g.cacheErr /\ last.g.getThrew
    /\ last.g.src = "store"
    /\ last.res.kind = "redirect"

\* the hashes an invocation has soft-deleted
C8_SoftDeleted ==
    IF last.op = "delete" THEN {last.hash}
    ELSE {last.cands[n] : n \in 1..Len(last.cands)}

\* C8: with requests run one after another and the cache bound, when deleteLinks
\* or the sweep returns after a committed soft-delete, the deletion of both
\* url:{hash} and og:{hash} was attempted, and each key whose delete the cache
\* accepted is absent.
C8_BothKeysDeleted ==
    (last.op \in {"delete", "sweep"} /\ last.g.committed /\ kvBound)
        => /\ \A h \in C8_SoftDeleted : {UrlKey(h), OgKey(h)} \subseteq last.g.tried
           /\ \A k \in last.g.accepted : ~kv[k].present

\* C9: with requests run one after another and no cache delete ever thrown,
\* when updateLinks returns a success the cache holds, for that hash, no record
\* other than the row's and no preview of another target than the row's.
C9_UpdateInvalidates ==
    \A i \in RowIds :
        (/\ last.op = "update"
         /\ last.res.kind = "success"
         /\ ~cacheFaulted
         /\ i \in ActiveRowsOf(last.hash))
            => /\ kv[UrlKey(last.hash)].present
                    => kv[UrlKey(last.hash)].data = DataOf(links[i].url, links[i].expiresAt)
               /\ kv[OgKey(last.hash)].present
                    => kv[OgKey(last.hash)].html = generateOgPageHtml(links[i].url)

\* the lookup of a deleteLinks item runs while its hash names no active row
C10_LookupOfDeleted(t) ==
    /\ task[t].op = "delete"
    /\ task[t].pc = "d_select"
    /\ task'[t].pc # "d_select"
    /\ ActiveRowsOf(task[t].hash) = {}

\* C10: a deleteLinks item whose hash names no active row (soft-deleted or
\* absent) returns the failure 'Record not found or already deleted' and leaves
\* every store row and every cache entry as it was, so that repeating it meets
\* the same state and gives the same result.
C10_DeleteOfDeleted ==
    [][\A t \in Tasks :
          C10_LookupOfDeleted(t)
              => /\ last'.op = "delete"
                 /\ last'.hash = task[t].hash
                 /\ last'.res = ItemFailure("Record not found or already deleted")
                 /\ links' = links
                 /\ kv' = kv]_vars

\* C10 witness: deleteLinks has failed on a hash whose row is soft-deleted.
C10_Witness ==
    /\ last.op = "delete"
    /\ last.res = ItemFailure("Record not found or already deleted")
    /\ DeletedRowsOf(last.hash) # {}

\* a createLinks batch has returned its partition
C11_CreateReturned == batch.op = "create" /\ batch.phase = "returned" /\ batch.res = BatchOk

\* the items of the batch that use a custom code whose hash had a row when the
\* batch started, or when the item probed for it
C11_TakenCustom ==
    {i \in 1..batch.n :
        /\ batch.records[i] # Null
        /\ \/ i \in batch.taken
           \/ batch.results[i].res = ItemFailure("Custom short code already exists")}

\* the item i failed on its collision, the others succeeded and have their rows
C11_AllButOne(i) ==
    /\ Len(batch.successes) = batch.n - 1
    /\ Len(batch.failures) = 1
    /\ batch.failures[1] = batch.results[i]
    /\ batch.results[i].res = ItemFailure("Custom short code already exists")
    /\ \A j \in (1..batch.n) \ {i} :
          /\ batch.results[j].res = ItemSuccess(batch.results[j].hash)
          /\ \E r \in RowIds : /\ links[r].hash = batch.results[j].hash
                                /\ links[r].shortCode = batch.results[j].code
                                /\ links[r].isDeleted = 0

\* C11: a createLinks batch of N items in which exactly one item uses a custom
\* code that is already taken, the other N-1 items being creatable on their own
\* (no two of them ask for the same code, none runs out of generation
\* attempts), returns exactly N-1 successes and 1 failure, the failure being
\* the collision of that item, and the N-1 other rows are inserted.
C11_BatchIsolation ==
    \A i \in 1..batch.n :
        (/\ C11_CreateReturned
         /\ C11_TakenCustom = {i}
         /\ \A j, k \in (1..batch.n) \ {i} :
               j # k => batch.results[j].code # batch.results[k].code
         /\ \A j \in (1..batch.n) \ {i} :
               batch.results[j].res # ItemFailure("Failed to generate unique hash"))
            => C11_AllButOne(i)

\* C11 witness: a batch of three items, the second with a taken custom code,
\* one with a free custom code and one without a code, has returned two
\* successes and the failure of the second item.
C11_Witness ==
    /\ C11_CreateReturned
    /\ batch.n = 3
    /\ C11_TakenCustom = {2}
    /\ \E j \in {1, 3} : batch.records[j] = Null
    /\ C11_AllButOne(2)

\* a batch has returned its partition
C12_Returned == batch.phase = "returned" /\ batch.res = BatchOk

\* C12: when a createLinks, updateLinks or deleteLinks batch returns its
\* partition, every item has completed with a result of its own, a success or
\* a failure carrying its error; successes and failures are the results of the
\* items in the order of the request, each item in exactly one of them, and
\* |successes| + |failures| is the number of items.
C12_Partition ==
    C12_Returned
        => /\ Len(batch.results) = batch.n
           /\ Len(batch.successes) + Len(batch.failures) = batch.n
           /\ \A t \in AllTasks : task[t].pc = "idle"
           /\ \A i \in 1..batch.n :
                 LET r == batch.results[i]
                     rank == Cardinality({j \in 1..i : IsSuccess(batch.results[j]) = IsSuccess(r)})
                 IN /\ r.op = batch.op
                    /\ r.res.kind \in {"success", "failure"}
                    /\ batch.op = "create" /\ batch.records[i] # Null
                          => r.code = batch.records[i]
                    /\ batch.op \in {"update", "delete"} => r.hash = batch.records[i]
                    /\ r.res.kind = "success"
                          => /\ r.res = ItemSuccess(r.hash)
                             /\ rank <= Len(batch.successes)
                             /\ batch.successes[rank] = r
                    /\ r.res.kind = "failure"
                          => /\ rank <= Len(batch.failures)
                             /\ batch.failures[rank] = r

\* C12 witness: in a returned batch of three creates one item's insert was
\* rejected by the store, its error is that item's failure entry, and the item
\* after it was created.
C12_Witness ==
    /\ C12_Returned
    /\ batch.op = "create" /\ batch.n = 3
    /\ \E i \in 1..2 :
          /\ batch.results[i].res = ItemFailure("UNIQUE constraint failed")
          /\ batch.results[i] = batch.failures[1]
          /\ batch.results[3].res.kind = "success"

\* C13: a createLinks item is reported as a success only if a row with its
\* hash is in the store afterwards; an item served without a store client
\* (its initialisation failed on an earlier invocation) is a failure and
\* leaves no url:{hash} entry.
C13_SuccessHasRow ==
    last.op = "create"
        => /\ last.res.kind = "success"
                => \E i \in RowIds : /\ links[i].hash = last.hash
                                      /\ links[i].shortCode = last.code
           /\ (last.db # "ok" /\ last.res.kind # "error500")
                => /\ last.res.kind = "failure"
                   /\ ~kv[UrlKey(last.hash)].present

\* C14: expiry is inclusive: a redirect-path resolve of an active record,
\* performed at the instant now = expiresAt or later and working with the
\* record's current url and expiresAt, returns NotFound.
C14_ExpiryInclusive ==
    \A i \in RowIds :
        (/\ RedirectPath
         /\ links[i].hash = last.hash
         /\ links[i].isDeleted = 0
         /\ links[i].expiresAt # NoExpiry
         /\ now >= links[i].expiresAt
         /\ last.data.found => last.data = DataOf(links[i].url, links[i].expiresAt))
            => last.res.kind = "notfound"

\* C15: resolve (GET /:shortCode) with a crawler's user-agent, for an active
\* link that has not expired, returns the rendered preview document of the
\* link's target, and not an HTTP redirect.
C15_CrawlerGetsPreview ==
    \A i \in RowIds :
        (/\ last.op = "resolve"
         /\ IsCrawler(last.ua)
         /\ links[i].hash = last.hash
         /\ links[i].isDeleted = 0
         /\ ~PastExpiry(links[i], now))
            => /\ last.res.kind # "redirect"
               /\ last.res = Html(generateOgPageHtml(links[i].url))

\* C16: a resolution that fails, whatever its cause (code never created, link
\* soft-deleted, link expired), answers on its path exactly what that path
\* answers for a code that was never created.
C16_UniformNotFound ==
    last.res.kind = "notfound"
        => /\ RedirectPath => last.res = NotFound("Short code not found or expired")
           /\ PreviewPath => last.res = NotFound("Short code not found")

\* the probe of a custom-code item runs while a row, active or soft-deleted,
\* has the item's hash
C17_ProbeOfTaken(t) ==
    /\ task[t].op = "create"
    /\ task[t].pc = "c_probe"
    /\ task[t].attempt = 0
    /\ task'[t] # task[t]
    /\ \E i \in RowIds : links[i].hash = task[t].hash

\* C17: on the custom-code path, when a row (active or soft-deleted) already
\* has the hash of (domain, candidate), the item fails with the collision error
\* at its first and only probe: no other code is tried, no insert follows, and
\* store and cache are as they were.
C17_CustomCollision ==
    [][\A t \in Tasks :
          C17_ProbeOfTaken(t)
              => /\ last'.op = "create"
                 /\ last'.res = ItemFailure("Custom short code already exists")
                 /\ last'.code = task[t].code
                 /\ last'.hash = task[t].hash
                 /\ last'.g.probes = 1
                 /\ task'[t].pc = "idle"
                 /\ links' = links
                 /\ kv' = kv]_vars

\* C17 witness: a custom-code item has failed with the collision error on a
\* hash whose row is soft-deleted.
C17_Witness ==
    /\ last.op = "create"
    /\ last.attempt = 0
    /\ last.res = ItemFailure("Custom short code already exists")
    /\ last.g.probes = 1
    /\ \E i \in RowIds : links[i].hash = last.hash /\ links[i].isDeleted = 1

\* the probe of a random-path item runs
C18_RandomProbe(t) ==
    /\ task[t].op = "create"
    /\ task[t].pc = "c_probe"
    /\ task[t].attempt >= 1
    /\ task'[t] # task[t]

\* C18: on the random path the generator makes at most 15 store probes, one
\* per attempt: the item goes on to its insert with the first candidate whose
\* probe finds no row, a candidate whose hash has a row is never inserted, and
\* after 15 collisions the item fails (generation exhausted) without an insert.
C18_BoundedGeneration ==
    /\ [](/\ \A t \in AllTasks :
               (task[t].op = "create" /\ task[t].attempt >= 1)
                   => /\ task[t].attempt <= 15
                      /\ task[t].g.probes <= 15
                      /\ task[t].pc = "c_probe" => task[t].g.probes = task[t].attempt - 1
                      /\ task[t].pc \in {"c_delay", "c_insert", "c_put"}
                            => task[t].g.probes = task[t].attempt
          /\ (last.op = "create" /\ last.attempt >= 1 /\ last.res.kind # "error500")
                => /\ last.g.probes = last.attempt
                   /\ last.g.probes <= 15
                   /\ last.res = ItemFailure("Failed to generate unique hash")
                         => /\ last.g.probes = 15
                            /\ ~last.g.committed
                            /\ \E i \in RowIds : links[i].hash = last.hash
                   /\ (last.res.kind = "success" /\ last.db = "ok")
                         => \E i \in RowIds : /\ links[i].hash = last.hash
                                               /\ links[i].shortCode = last.code)
    /\ [][\A t \in AllTasks :
             C18_RandomProbe(t)
                 => IF \E i \in RowIds : links[i].hash = task[t].hash
                    THEN /\ task'[t].pc # "c_insert"
                         /\ links' = links
                         /\ task'[t].pc = "c_probe" => task'[t].attempt = task[t].attempt + 1
                    ELSE /\ task'[t].pc = "c_insert"
                         /\ task'[t].code = task[t].code
                         /\ task'[t].hash = task[t].hash]_vars

\* C18 witness: an item without custom code has failed after 15 probes, each
\* of its candidates of length 8, 9 and 10 having a row.
C18_Witness ==
    /\ last.op = "create"
    /\ last.attempt = 15
    /\ last.g.probes = 15
    /\ last.res = ItemFailure("Failed to generate unique hash")
    /\ Len(links) = 3

\* the 62 symbols 0-9, A-Z, a-z
C19_Alphabet ==
    {"0", "1", "2", "3", "4", "5", "6", "7", "8", "9"}
    \cup {"A", "B", "C", "D", "E", "F", "G", "H", "I", "J", "K", "L", "M",
          "N", "O", "P", "Q", "R", "S", "T", "U", "V", "W", "X", "Y", "Z"}
    \cup {"a", "b", "c", "d", "e", "f", "g", "h", "i", "j", "k", "l", "m",
          "n", "o", "p", "q", "r", "s", "t", "u", "v", "w", "x", "y", "z"}

\* the length the claim gives to the code of attempt k
C19_Length(k) == IF k \in 1..5 THEN 8 ELSE IF k \in 6..10 THEN 9 ELSE 10

\* C19: the code produced on attempt k of the random path has length 8 for
\* k <= 5, 9 for 6 <= k <= 10 and 10 for 11 <= k <= 15, and each of its
\* characters is one of the 62 symbols 0-9, A-Z, a-z; the code an item without
\* custom code works with on attempt k has that length, and a create that
\* succeeds on its first attempt returns a code of length 8.
C19_CodeLengthAndAlphabet ==
    /\ Cardinality(C19_Alphabet) = 62
    /\ last.op = "generate"
          => /\ Len(last.chars) = C19_Length(last.attempt)
             /\ Len(last.code) = C19_Length(last.attempt)
             /\ \A n \in 1..Len(last.chars) : last.chars[n] \in C19_Alphabet
    /\ \A t \in AllTasks :
          (task[t].op = "create" /\ task[t].attempt >= 1)
              => Len(task[t].code) = C19_Length(task[t].attempt)
    /\ (last.op = "create" /\ last.attempt >= 1 /\ last.res.kind = "success")
          => /\ Len(last.code) = C19_Length(last.attempt)
             /\ last.attempt = 1 => Len(last.code) = 8

\* C19 witness: the candidate of attempt 11 for timestamp 999999 and random
\* number 999999, the seven base-62 digits HbXm5a3 of 999999999999 padded
\* with three characters to length 10
C19_Witness ==
    /\ last.op = "generate"
    /\ last.attempt = 11
    /\ last.stamp = 999999
    /\ last.code = "zzzHbXm5a3"
    /\ Len(last.chars) = 10

\* the digest of "domain:shortCode", written out
C20_Digest(domain, shortCode) == "sha256(" \o domain \o ":" \o shortCode \o ")"

\* C20: in every reachable state the hash of every row is the deterministic
\* hash of the row's domain and shortCode, so the hash a resolve, a preview or
\* a create computes from (domain, shortCode) is the hash of the row with that
\* pair; and no step changes the hash, the shortCode or the domain of a row
\* that exists (rows are never removed either).
C20_HashRoundTrip ==
    /\ [](/\ \A i \in RowIds :
               links[i].hash = C20_Digest(links[i].domain, links[i].shortCode)
          /\ \A t \in Tasks :
               task[t].op \in {"resolve", "og", "create"}
                   => /\ task[t].hash = C20_Digest(task[t].domain, task[t].code)
                      /\ \A i \in RowIds :
                           (links[i].domain = task[t].domain
                            /\ links[i].shortCode = task[t].code)
                               => links[i].hash = task[t].hash)
    /\ [][\A i \in DOMAIN links :
             /\ i \in DOMAIN links'
             /\ links'[i].hash = links[i].hash
             /\ links'[i].shortCode = links[i].shortCode
             /\ links'[i].domain = links[i].domain]_vars

\* C20 witness: a link whose url was updated after its creation is resolved;
\* the redirect goes to the new url, found under the recomputed hash
C20_Witness ==
    /\ last.op = "resolve"
    /\ last.res.kind = "redirect"
    /\ \E i \in RowIds :
          /\ links[i].hash = last.hash
          /\ links[i].domain = last.domain
          /\ links[i].shortCode = last.code
          /\ last.hash = C20_Digest(last.domain, last.code)
          /\ links[i].url = "https://b.example"
          /\ last.res.val = "https://b.example"

\* C21: an item of PUT /api/url is reported as a success only if its update
\* statement modified a non-deleted row; when no non-deleted row has its hash
\* at the time the statement is applied, the item is reported as a failure.
C21_UpdateSuccessModified ==
    (last.op = "update" /\ last.res.kind = "success")
        => /\ last.g.committed
           /\ \E i \in RowIds : links[i].hash = last.hash

\* the update statement of an item of PUT /api/url runs
C22_UpdateStatement(t) ==
    /\ task[t].op = "update"
    /\ task[t].pc = "u_update"
    /\ task[t].db = "ok"
    /\ task'[t] # task[t]

\* C22: the update statement of PUT /api/url sets, in the non-deleted row of
\* the item's hash, each of url, userId, expiresAt and attribute that the item
\* provides to the provided value; each of the four the item does not provide,
\* and id, hash, shortCode, domain and isDeleted (and createdAt), keep their
\* values, and every other row is left as it was.
C22_UpdateFrame ==
    [][\A t \in Tasks :
          C22_UpdateStatement(t)
              => /\ DOMAIN links' = DOMAIN links
                 /\ \A i \in DOMAIN links :
                      IF links[i].hash = task[t].hash /\ links[i].isDeleted = 0
                      THEN /\ links'[i].url = IF task[t].url # Null THEN task[t].url
                                              ELSE links[i].url
                           /\ links'[i].userId = IF task[t].userId # Null
                                                 THEN task[t].userId
                                                 ELSE links[i].userId
                           /\ links'[i].expiresAt = IF task[t].exp # NoExpiry
                                                    THEN task[t].exp
                                                    ELSE links[i].expiresAt
                           /\ links'[i].attribute = IF task[t].attr # Null
                                                    THEN task[t].attr
                                                    ELSE links[i].attribute
                           /\ links'[i].hash = links[i].hash
                           /\ links'[i].shortCode = links[i].shortCode
                           /\ links'[i].domain = links[i].domain
                           /\ links'[i].isDeleted = links[i].isDeleted
                           /\ links'[i].createdAt = links[i].createdAt
                      ELSE links'[i] = links[i]]_vars

\* C22 witness: an update that provided only userId has returned; the row has
\* the new userId and the url, expiresAt and attribute it was created with
C22_Witness ==
    /\ last.op = "update"
    /\ last.res.kind = "success"
    /\ last.g.committed
    /\ last.userId = "u1"
    /\ last.url = Null /\ last.exp = NoExpiry /\ last.attr = Null
    /\ \E i \in RowIds :
          /\ links[i].hash = last.hash
          /\ links[i].userId = "u1"
          /\ links[i].url = "https://a.example"
          /\ links[i].expiresAt = getDefaultExpiresAt
          /\ links[i].attribute = Null

\* a sweep has returned
C23_SweepReturned == last.op = "sweep" /\ last.pc = "idle"

\* C23: after a sweep that reports no errors (no other request running), every
\* row that was non-deleted with expiresAt < now at the sweep's query has
\* isDeleted = 1 and neither url:{hash} nor og:{hash} of it is in the cache;
\* the rows with expiresAt >= now are as they were, and no step of a sweep
\* changes a row that is not one of its candidates.
C23_SweepCleans ==
    /\ []((C23_SweepReturned /\ last.errors = <<>>)
            => /\ \A i \in RowIds :
                    IF links[i].expiresAt # NoExpiry
                       /\ links[i].expiresAt < last.currentTime
                    THEN links[i].isDeleted = 1
                    ELSE links[i] = SweepRows(MaxExpired)[i]
               /\ \A n \in 1..Len(last.cands) :
                    /\ ~kv[UrlKey(last.cands[n])].present
                    /\ ~kv[OgKey(last.cands[n])].present
                    /\ \E i \in RowIds : /\ links[i].hash = last.cands[n]
                                          /\ links[i].isDeleted = 1
                                          /\ links[i].expiresAt < last.currentTime)
    /\ [][\A i \in DOMAIN links :
             (\A n \in 1..Len(task["t1"].cands) : task["t1"].cands[n] # links[i].hash)
                 => links'[i] = links[i]]_vars

\* C23 witness: a sweep over 51 expired links, in two batches, has returned
\* without errors with the cache bound; the preview of the first link was cached
C23_Witness ==
    /\ C23_SweepReturned
    /\ last.errors = <<>>
    /\ Len(last.cands) = 51
    /\ last.deletedCount = 51
    /\ last.cacheCleanedCount = 51
    /\ kvBound
    /\ links[1].isDeleted = 1 /\ links[51].isDeleted = 1
    /\ links[52].isDeleted = 0 /\ links[53].isDeleted = 0
    /\ kv[UrlKey(links[52].hash)].present

\* the number of entries of the error list that are msg
C24_Count(errors, msg) == Cardinality({n \in 1..Len(errors) : errors[n] = msg})

\* C24: when the soft-delete or the cache invalidation of a candidate fails,
\* the failure is in the error list and every other candidate, of the same
\* batch and of the later batches, is processed: in the summary of a sweep
\* that found candidates, every candidate is either counted as deleted or has
\* its delete error (and only those with an error are still non-deleted), and
\* with the cache bound both keys of every candidate were deleted or the
\* candidate has its cache error.
C24_SweepGoesOn ==
    (C23_SweepReturned /\ last.cands # <<>>)
        => LET deleteErrors == C24_Count(last.errors, "Failed to delete link")
               cacheErrors == C24_Count(last.errors, "Failed to clear cache")
               n == Len(last.cands)
           IN /\ Len(last.errors) = deleteErrors + cacheErrors
              /\ last.deletedCount + deleteErrors = n
              /\ Cardinality({i \in RowIds :
                      /\ \E k \in 1..n : last.cands[k] = links[i].hash
                      /\ links[i].isDeleted = 0}) = deleteErrors
              /\ kvBound
                   => /\ last.cacheCleanedCount + cacheErrors = n
                      /\ last.g.tried = {UrlKey(last.cands[k]) : k \in 1..n}
                                            \cup {OgKey(last.cands[k]) : k \in 1..n}
                      /\ Cardinality({k \in 1..n :
                              \/ kv[UrlKey(last.cands[k])].present
                              \/ kv[OgKey(last.cands[k])].present}) <= cacheErrors
              /\ ~kvBound => last.cacheCleanedCount = 0 /\ cacheErrors = 0

\* C24 witness: the soft-delete of the first of 51 candidates failed; the 49
\* others of its batch and the one of the second batch were soft-deleted
C24_Witness ==
    /\ C23_SweepReturned
    /\ Len(last.cands) = 51
    /\ last.errors = <<"Failed to delete link">>
    /\ last.deletedCount = 50
    /\ links[1].isDeleted = 0
    /\ links[2].isDeleted = 1 /\ links[50].isDeleted = 1 /\ links[51].isDeleted = 1

\* C24 witness, cache: a cache delete of the first candidate failed; the
\* entries of the 50 others, the last in the second batch, are gone
C24_CacheWitness ==
    /\ C23_SweepReturned
    /\ Len(last.cands) = 51
    /\ last.errors = <<"Failed to clear cache">>
    /\ last.cacheCleanedCount = 50
    /\ kv[UrlKey(last.cands[1])].present
    /\ ~kv[UrlKey(last.cands[2])].present
    /\ ~kv[UrlKey(last.cands[51])].present

\* the summary of a sweep that failed before its candidates were known
C25_ErrorOnly(tk) ==
    /\ tk.deletedCount = 0
    /\ tk.cacheCleanedCount = 0
    /\ Len(tk.errors) = 1
    /\ tk.cands = <<>>
    /\ tk.g.tried = {}
    /\ ~tk.g.committed

\* C25: a sweep that gets no store client, or whose candidate query fails,
\* returns deletedCount = 0, cacheCleanedCount = 0 and exactly one error; it
\* makes the query at most once (not at all without a client), and the step
\* in which it fails writes no row and deletes no cache entry.
C25_SweepErrorOnly ==
    /\ [](/\ (C23_SweepReturned /\ last.db # "ok")
               => C25_ErrorOnly(last) /\ last.g.probes = 0
          /\ \A t \in Tasks : task[t].op = "sweep" => task[t].g.probes <= 1
          /\ C23_SweepReturned => last.g.probes <= 1)
    /\ [][\A t \in Tasks :
             (/\ task[t].op = "sweep"
              /\ task[t].pc = "s_query"
              /\ task'[t].pc = "idle"
              /\ last'.op = "sweep"
              /\ last'.errors # <<>>)
                 => /\ C25_ErrorOnly(last')
                    /\ links' = links
                    /\ kv' = kv]_vars

\* C25 witness: the candidate query of a sweep with a working store client
\* has failed while an expired link was stored
C25_Witness ==
    /\ C23_SweepReturned
    /\ last.db = "ok"
    /\ last.g.probes = 1
    /\ last.errors = <<"Cleanup task failed">>
    /\ last.deletedCount = 0
    /\ \E i \in RowIds : SweepCandidate(links[i], last.currentTime)

\* C25 witness, no client: a sweep of a deployment whose store client cannot
\* be built has returned
C25_NoClientWitness ==
    /\ C23_SweepReturned
    /\ last.db # "ok"
    /\ last.errors = <<"Cleanup task failed">>
    /\ dbInstance = "broken"

\* C26: cleanupExpiredLinks never raises and always ends: whatever its store
\* and cache operations do, a sweep that has started returns, and what it
\* returns is the summary, in which each failed operation is an error string
\* (the candidates not counted as deleted or as cleaned are as many as the
\* errors).
C26_SweepNeverRaises ==
    /\ [](C23_SweepReturned
            => /\ last.res = [kind |-> "sweep", val |-> Null]
               /\ last.deletedCount \in 0..Len(last.cands)
               /\ last.cacheCleanedCount \in 0..Len(last.cands)
               /\ last.cands # <<>>
                    => Len(last.errors) =
                         (Len(last.cands) - last.deletedCount)
                         + (IF kvBound THEN Len(last.cands) - last.cacheCleanedCount
                            ELSE 0)
               /\ last.cands = <<>> => Len(last.errors) <= 1)
    /\ [](task["t1"].op = "sweep" => <>C23_SweepReturned)

\* C26 witness: a sweep over 51 candidates one of whose soft-deletes failed
\* has returned its summary
C26_Witness ==
    /\ C23_SweepReturned
    /\ last.res.kind = "sweep"
    /\ Len(last.cands) = 51
    /\ last.deletedCount = 50
    /\ Len(last.errors) = 1
    /\ kvBound /\ last.cacheCleanedCount = 51

\* no stored row is non-deleted with expiresAt before t
C27_NothingExpired(t) ==
    \A i \in RowIds :
        \/ links[i].isDeleted # 0
        \/ links[i].expiresAt = NoExpiry
        \/ links[i].expiresAt >= t

\* C27: when the query of a sweep runs while no non-deleted row has
\* expiresAt < now, the sweep returns in that step with deletedCount = 0 and
\* cacheCleanedCount = 0, with an empty error list unless the query itself was
\* rejected, and the step writes no row and deletes no cache entry.
C27_EmptySweep ==
    [][(/\ task["t1"].op = "sweep"
        /\ task["t1"].pc = "s_query"
        /\ task'["t1"] # task["t1"]
        /\ C27_NothingExpired(task["t1"].currentTime))
           => /\ task'["t1"].pc = "idle"
              /\ last'.op = "sweep"
              /\ last'.deletedCount = 0
              /\ last'.cacheCleanedCount = 0
              /\ last'.errors \in {<<>>, <<"Cleanup task failed">>}
              /\ last'.g.tried = {}
              /\ links' = links
              /\ kv' = kv]_vars

\* C27 witness: the second sweep, the first having soft-deleted all 51
\* expired links, has found nothing and returned the empty summary
C27_Witness ==
    /\ C23_SweepReturned
    /\ opsLeft = 0
    /\ last.cands = <<>>
    /\ last.errors = <<>>
    /\ last.deletedCount = 0 /\ last.cacheCleanedCount = 0
    /\ last.g.probes = 1
    /\ \A i \in 1..51 : links[i].isDeleted = 1

\* C28: no step of createLinks, updateLinks, deleteLinks, the sweep or resolve
\* removes a row: every row stays, with its hash, so the set of stored hashes
\* only grows; isDeleted never goes back from 1 to 0, and a step that
\* soft-deletes a row changes nothing else of it than isDeleted (to 1) and
\* updatedAt (to the time at which the deleting request issued its statement).
C28_NoHardDelete ==
    [][/\ DOMAIN links \subseteq DOMAIN links'
       /\ {links[i].hash : i \in DOMAIN links} \subseteq {links'[i].hash : i \in DOMAIN links'}
       /\ \A i \in DOMAIN links :
            /\ links'[i].hash = links[i].hash
            /\ links[i].isDeleted = 1 => links'[i].isDeleted = 1
            /\ links'[i].isDeleted # links[i].isDeleted
                 => /\ links'[i].isDeleted = 1
                    /\ links'[i] = [links[i] EXCEPT !.isDeleted = 1,
                                                    !.updatedAt = links'[i].updatedAt]
                    /\ links'[i].updatedAt <= now
                    /\ \E t \in Tasks :
                         /\ task[t].op \in {"delete", "sweep"}
                         /\ task'[t] # task[t]
                         /\ links'[i].updatedAt = task[t].stamp]_vars

\* C28 witness: a link has been created, soft-deleted by deleteLinks an hour
\* later, and looked up again; its row is still there
C28_Witness ==
    /\ last.op = "resolve"
    /\ last.res.kind = "notfound"
    /\ \E i \in RowIds :
          /\ links[i].hash = last.hash
          /\ links[i].isDeleted = 1
          /\ links[i].updatedAt > links[i].createdAt

\* C29: in every reachable state every row whose expiresAt is set has
\* expiresAt > createdAt.
C29_ExpiresAfterCreation ==
    \A i \in RowIds :
        links[i].expiresAt # NoExpiry => links[i].expiresAt > links[i].createdAt

\* C30: an item of createLinks without expiresAt goes to its insert with
\* expiresAt = creation time + 3,600,000 ms, an item with expiresAt with
\* exactly the supplied value; the row that is inserted and the item that is
\* returned carry that value, the row's createdAt being the creation time.
C30_DefaultExpiry ==
    /\ [][\A t \in Tasks :
             /\ (task[t].op = "create" /\ task[t].pc = "c_probe"
                 /\ task'[t].pc = "c_insert")
                  => /\ task'[t].stamp = now
                     /\ task'[t].exp = IF task[t].exp = 0 THEN now + 3600000
                                        ELSE task[t].exp
             /\ (task[t].op = "create" /\ task[t].pc = "c_insert"
                 /\ Len(links') = Len(links) + 1)
                  => /\ links'[Len(links')].expiresAt = task[t].exp
                     /\ links'[Len(links')].createdAt = task[t].stamp
                     /\ links'[Len(links')].hash = task[t].hash
             /\ (task[t].op = "create" /\ task[t].pc \in {"c_insert", "c_put"}
                 /\ task'[t].pc = "idle" /\ last'.res.kind = "success")
                  => /\ last'.exp = task[t].exp
                     /\ last'.hash = task[t].hash]_vars
    /\ []((last.op = "create" /\ last.res.kind = "success" /\ last.g.committed)
            => \E i \in RowIds :
                  /\ links[i].hash = last.hash
                  /\ links[i].expiresAt = last.exp
                  /\ \/ links[i].expiresAt = links[i].createdAt + 3600000
                     \/ links[i].expiresAt \in ExpiresAtInputs)

\* C30 witness: a link created at time 1 without expiresAt has been stored
\* and returned with expiresAt = 3600001
C30_Witness ==
    /\ last.op = "create"
    /\ last.res.kind = "success"
    /\ last.exp = 3600001
    /\ \E i \in RowIds :
          /\ links[i].hash = last.hash
          /\ links[i].createdAt = 1
          /\ links[i].expiresAt = 3600001

\* C30 witness, supplied: a link created at time 2 with expiresAt = 1 has
\* been stored and returned with expiresAt = 1
C30_SuppliedWitness ==
    /\ last.op = "create"
    /\ last.res.kind = "success"
    /\ last.exp = 1
    /\ \E i \in RowIds :
          /\ links[i].hash = last.hash
          /\ links[i].createdAt = 2
          /\ links[i].expiresAt = 1

\* C31: a resolve that misses both the cache and the store writes nothing to
\* the cache: no step of a resolve that holds no record changes the cache, no
\* url:{hash} entry ever stands for "not found", and a resolve whose cache
\* read finds no entry goes on to query the store; a resolve returns "not
\* found" without a record only from its store query.
C31_MissedBoth(tk) ==
    /\ tk.op = "resolve"
    /\ ~IsCrawler(tk.ua)
    /\ tk.res.kind = "notfound"
    /\ ~tk.data.found

C31_NoNegativeCaching ==
    /\ [](\A h \in AllHashes \cup StoredHashes :
             kv[UrlKey(h)].present => kv[UrlKey(h)].data.found)
    /\ [][\A t \in Tasks :
             (task[t].op = "resolve" /\ task'[t] # task[t])
               => LET after == IF task'[t].pc = "idle" THEN last' ELSE task'[t]
                  IN /\ ~after.data.found => kv' = kv
                     /\ (task[t].pc = "r_get" /\ ~KvHas(UrlKey(task[t].hash)))
                          => task'[t].pc = "r_db"
                     /\ C31_MissedBoth(after) => task[t].pc = "r_db"]_vars

\* C31 witness: with the cache bound, a resolve of a soft-deleted link has
\* read the cache without an error, found nothing there and nothing in the
\* store, and has returned; url:{hash} is absent
C31_Witness ==
    /\ kvBound
    /\ C31_MissedBoth(last)
    /\ last.db = "ok"
    /\ ~last.g.getThrew
    /\ DeletedRowsOf(last.hash) # {}
    /\ ActiveRowsOf(last.hash) = {}
    /\ ~kv[UrlKey(last.hash)].present

\* C32: when resolve has found its record expired (read from the cache or
\* from the store, the latter having just been written to the cache) and
\* the cache has accepted the delete, url:{hash} is absent from the cache in
\* the state in which resolve returns.
C32_ExpiredRead(tk) ==
    /\ tk.op = "resolve"
    /\ ~IsCrawler(tk.ua)
    /\ tk.data.found
    /\ tk.res.kind = "notfound"

C32_ExpiredEntryRemoved ==
    (C32_ExpiredRead(last) /\ UrlKey(last.hash) \in last.g.accepted)
        => ~kv[UrlKey(last.hash)].present

\* C32 witness, miss path: a resolve has missed the cache, read an expired
\* record from the store, written it to the cache, had its delete accepted
\* and returned 404
C32_Witness ==
    /\ C32_ExpiredRead(last)
    /\ last.g.src = "store"
    /\ ~last.g.cacheErr
    /\ isExpiredAt(last.data.expiresAt, now)
    /\ UrlKey(last.hash) \in last.g.accepted
    /\ ~kv[UrlKey(last.hash)].present

\* C32 witness, hit path: the expired record came from a cache hit
C32_HitWitness ==
    /\ C32_ExpiredRead(last)
    /\ last.g.src = "cache"
    /\ isExpiredAt(last.data.expiresAt, now)
    /\ UrlKey(last.hash) \in last.g.accepted
    /\ ~kv[UrlKey(last.hash)].present

\* C33: the sweep works through its candidate list in consecutive batches of
\* 50 (the last one may be shorter): while it is at candidate idx of batch
\* b = (idx - 1) div 50, the soft-deletes of candidates 1 .. idx - 1 and the
\* cache deletes of all candidates of the batches before b are done (in the
\* cache loop: the soft-deletes up to the end of batch b and the cache
\* deletes of 1 .. idx - 1); each step handles the candidate at idx and no
\* other, the next batch is entered from the last candidate of the batch
\* before, and the sweep returns from the last candidate.
C33_Deletes(tk) == tk.deletedCount + C24_Count(tk.errors, "Failed to delete link")

C33_Caches(tk) == tk.cacheCleanedCount + C24_Count(tk.errors, "Failed to clear cache")

C33_Position(tk) ==
    LET n == Len(tk.cands)
        b == (tk.idx - 1) \div 50
        end == IF 50 * (b + 1) < n THEN 50 * (b + 1) ELSE n
    IN /\ tk.idx \in 1..n
       /\ tk.pc = "s_delete"
            => /\ C33_Deletes(tk) = tk.idx - 1
               /\ C33_Caches(tk) = IF kvBound THEN 50 * b ELSE 0
       /\ tk.pc = "s_cache"
            => /\ kvBound
               /\ C33_Deletes(tk) = end
               /\ C33_Caches(tk) = tk.idx - 1

C33_BatchOrder ==
    /\ [](\A t \in Tasks :
            (task[t].op = "sweep" /\ task[t].pc \in {"s_delete", "s_cache"})
                => C33_Position(task[t]))
    /\ [][\A t \in Tasks :
            (task[t].op = "sweep" /\ task[t].pc \in {"s_delete", "s_cache"}
             /\ task'[t] # task[t])
              => LET tk == task[t]
                     n == Len(tk.cands)
                     b == (tk.idx - 1) \div 50
                     hash == tk.cands[tk.idx]
                 IN /\ \A i \in RowIds : links[i].hash # hash => links'[i] = links[i]
                    /\ \A k \in Keys : k \notin {UrlKey(hash), OgKey(hash)} => kv'[k] = kv[k]
                    /\ task'[t].pc = "idle" => tk.idx = n
                    /\ task'[t].pc # "idle"
                         => /\ task'[t].cands = tk.cands
                            /\ LET b2 == (task'[t].idx - 1) \div 50
                               IN \/ b2 = b
                                  \/ /\ b2 = b + 1
                                     /\ tk.idx = 50 * (b + 1)
                                     /\ task'[t].idx = tk.idx + 1
                                     /\ task'[t].pc = "s_delete"
                                     /\ tk.pc = IF kvBound THEN "s_cache" ELSE "s_delete"]_vars

\* C33 witness: with the cache bound and 51 candidates the sweep is at the
\* first (and only) candidate of its second batch, the 50 soft-deletes and
\* the 50 cache deletes of the first batch being done
C33_Witness ==
    /\ kvBound
    /\ task["t1"].op = "sweep"
    /\ task["t1"].pc = "s_delete"
    /\ Len(task["t1"].cands) = 51
    /\ task["t1"].idx = 51
    /\ C33_Deletes(task["t1"]) = 50
    /\ C33_Caches(task["t1"]) = 50

\* C34: in every state of a correctly configured deployment in which no
\* request is in flight, no cache operation having failed, every url:{h}
\* entry of the cache belongs to a non-deleted row with hash h and holds that
\* row's current url and expiresAt.
C34_Coherent(h) ==
    kv[UrlKey(h)].present
        => \E i \in ActiveRowsOf(h) :
              kv[UrlKey(h)].data = DataOf(links[i].url, links[i].expiresAt)

C34_CacheCoherentAtRest ==
    (storeConfigOk /\ CacheOk /\ \A t \in AllTasks : task[t].pc = "idle")
        => \A h \in AllHashes \cup StoredHashes : C34_Coherent(h)

\* C35: every row a step of the sweep soft-deletes is, at that step, expired
\* and not deleted; a row whose expiresAt a concurrent updateLinks has moved
\* into the future since the sweep's query is left alone.
C35_SweepDeletesExpiredOnly ==
    [][\A t \in Tasks :
          (task[t].op = "sweep" /\ task[t].pc = "s_delete" /\ task'[t] # task[t])
            => \A i \in RowIds :
                  links'[i] # links[i]
                    => /\ links[i].isDeleted = 0
                       /\ links[i].expiresAt # NoExpiry
                       /\ links[i].expiresAt < now]_vars

\* C36: of two items of a deleteLinks batch that name the same hash at most
\* one is reported as a success (the other finds the record already
\* deleted), so the row is soft-deleted once.
C36_OneDeleteSucceeds ==
    (C12_Returned /\ batch.op = "delete")
        => \A i, j \in 1..batch.n :
              (i < j /\ batch.records[i] = batch.records[j])
                => ~(IsSuccess(batch.results[i]) /\ IsSuccess(batch.results[j]))

\* C37: no step of an updateLinks item changes any field of a row whose
\* isDeleted is 1, whatever deleteLinks or the sweep did since the item's
\* existence check; such a row keeps the url, userId, expiresAt and attribute
\* it had when it was soft-deleted.
C37_DeletedRowsUntouched ==
    [][\A t \in Tasks :
          (task[t].op = "update" /\ task'[t] # task[t])
            => /\ DOMAIN links' = DOMAIN links
               /\ \A i \in RowIds : links[i].isDeleted = 1 => links'[i] = links[i]]_vars

\* C37 witness: an update to another target found the row at its existence
\* check, the row was soft-deleted before the update statement ran, and the
\* update has returned: the row is deleted and has the target it had before
C37_Witness ==
    /\ last.op = "update"
    /\ last.db = "ok"
    /\ last.res.kind = "success"
    /\ ~last.g.committed
    /\ last.url = NewUrl
    /\ \E i \in RowIds :
          /\ links[i].hash = last.hash
          /\ links[i].isDeleted = 1
          /\ links[i].url = OldUrl

\* C37 witness, sweep: the same with the row soft-deleted by a sweep that is
\* still running
C37_SweepWitness ==
    /\ C37_Witness
    /\ \E t \in Tasks : task[t].op = "sweep" /\ task[t].deletedCount = 1

\* C38: the preview path returns no preview document from the cache for a
\* link whose expiresAt has passed: an og:{hash} entry written before the
\* expiry is checked against the expiry when it is read.
C38_CachedPreviewNotExpired ==
    (PreviewPath /\ last.res.kind = "html" /\ last.g.src = "cache")
        => \A i \in ActiveRowsOf(last.hash) : ~PastExpiry(links[i], now)

\* C39: no step in which a resolve, on the redirect or on the preview path,
\* starts, goes on or returns changes the store: an expired record that was
\* resolved is not soft-deleted; isDeleted is changed only by a step of a
\* deleteLinks item or of the sweep.
C39_ResolveStep ==
    \/ last'.op \in {"resolve", "og"}
    \/ \E t \in Tasks : task'[t] # task[t] /\ task'[t].op \in {"resolve", "og"}

C39_ResolveLeavesStore ==
    [][/\ C39_ResolveStep => links' = links
       /\ \A i \in DOMAIN links :
            links'[i].isDeleted # links[i].isDeleted
              => \E t \in Tasks : /\ task[t].op \in {"delete", "sweep"}
                                  /\ task'[t] # task[t]]_vars

\* C39 witness: a resolve has read a record, found it expired and answered
\* 404; the row is still there with isDeleted = 0
C39_Witness ==
    /\ RedirectPath
    /\ last.data.found
    /\ last.res.kind = "notfound"
    /\ \E i \in ActiveRowsOf(last.hash) :
          /\ PastExpiry(links[i], now)
          /\ last.data = DataOf(links[i].url, links[i].expiresAt)

\* C39 witness, preview: the preview path has answered "Short code expired"
\* and the row is still there with isDeleted = 0
C39_PreviewWitness ==
    /\ PreviewPath
    /\ last.res = NotFound("Short code expired")
    /\ \E i \in ActiveRowsOf(last.hash) : PastExpiry(links[i], now)

\* C40: in the summary of every sweep whose candidate query was answered,
\* deletedCount plus the number of soft-delete errors is the number of
\* candidates; with a cache bound cacheCleanedCount plus the number of cache
\* errors is the number of candidates as well, whichever soft-deletes
\* succeeded, and without a cache cacheCleanedCount is 0 and there is no
\* cache error.
C40_PastQuery(tk) ==
    /\ tk.op = "sweep"
    /\ tk.pc = "idle"
    /\ tk.g.probes = 1
    /\ C24_Count(tk.errors, "Cleanup task failed") = 0

C40_CountsAddUp ==
    C40_PastQuery(last)
        => /\ C33_Deletes(last) = Len(last.cands)
           /\ C33_Caches(last) = IF kvBound THEN Len(last.cands) ELSE 0
           /\ ~kvBound => last.cacheCleanedCount = 0
           /\ last.deletedCount \in 0..Len(last.cands)
           /\ last.cacheCleanedCount \in 0..Len(last.cands)

\* C40 witness: of 51 candidates one soft-delete failed and every cache
\* delete succeeded: deletedCount = 50, one soft-delete error,
\* cacheCleanedCount = 51
C40_Witness ==
    /\ kvBound
    /\ C40_PastQuery(last)
    /\ Len(last.cands) = 51
    /\ last.deletedCount = 50
    /\ C24_Count(last.errors, "Failed to delete link") = 1
    /\ last.cacheCleanedCount = 51

\* C40 witness, empty: a sweep whose query found no candidate has returned
\* with both counts 0
C40_EmptyWitness ==
    /\ C40_PastQuery(last)
    /\ last.cands = <<>>
    /\ last.deletedCount = 0
    /\ last.cacheCleanedCount = 0

====
